---- MODULE Spec2Model ----
(***************************************************************************)
(* CloudNav: a bookmark manager.  The module models                        *)
(*   - the Netscape bookmark export codec  (services/exportService.ts),    *)
(*   - the WebDAV backup transport         (services/webDavService.ts),    *)
(*   - the application state and its handlers (App.tsx and its modals).    *)
(* Text the codec escapes is a sequence of one-character strings, so that  *)
(* escaping and decoding are computed character by character.              *)
(***************************************************************************)
EXTENDS Integers, Sequences, FiniteSets, TLC

VARIABLES
    \* --- export codec (exportService.ts) ---
    eLinks,        \* the LinkItem[] handed to generateBookmarkHtml
    eCats,         \* the Category[] handed to generateBookmarkHtml
    html,          \* the generated document (a sequence of emitted lines), or NoHtml
    eNow,          \* Math.floor(Date.now() / 1000) read by the generator
    draft,         \* text typed into a title / name field, one character at a time
    \* --- WebDAV transport (webDavService.ts) ---
    davResp,       \* the outcome of fetch() seen by downloadBackup, or NoResp
    davResult,     \* what downloadBackup returned for davResp
    \* --- application state (App.tsx) ---
    links,             \* useState<LinkItem[]>
    categories,        \* useState<Category[]>
    localCache,        \* localStorage[LOCAL_STORAGE_KEY]: << >> or <<document>>
    authToken,         \* useState<string>: the in-memory credential, "" when absent
    savedToken,        \* localStorage[AUTH_KEY], "" when absent
    isAuthOpen,        \* the authentication prompt
    isBackupModalOpen, \* the backup modal
    editingLink,       \* << >> or <<id of the link being edited>>
    syncStatus,        \* 'idle' | 'saving' | 'saved' | 'error'
    idleTimers,        \* pending setTimeout(() => setSyncStatus('idle'), 2000)
    requests,          \* POSTs to /api/storage that have not settled
    initFetch,         \* "pending" until initData's GET /api/storage has settled
    pendingImports,    \* handleImport calls awaiting parseBookmarks, with what they closed over
    pendingRestores,   \* handleRestoreFromCloud calls awaiting downloadBackup, likewise
    backupStatus,      \* syncStatus of the backup modal
    clock,             \* Date.now()
    ops,               \* user operations performed so far
    rejected,          \* credentials answered with 401 since the last login submission
    last,              \* the step just taken: the handler, what it read and what it sent
    \* --- category locking (App.tsx, CategoryAuthModal) ---
    selectedCategory,     \* useState<string>('all')
    unlockedCategoryIds,  \* useState<Set<string>>(new Set())
    searchQuery,          \* useState('')
    catAuthModalData,     \* << >> or <<the Category handed to the password prompt>>
    catAuthPassword,      \* CategoryAuthModal: useState('') password
    catAuthError,         \* CategoryAuthModal: useState('') error
    \* --- one call of a transport operation (webDavService.ts, syncToCloud) ---
    callOp,        \* the operation called, "" before the call
    callConfig,    \* the WebDavConfig it was given
    callResp,      \* << >> or <<what fetch() produced>>
    callResult,    \* << >> or <<how the call ended>>
    \* --- the generic store behind /api/storage ---
    cloudDoc,      \* the document the store holds
    handledLog,    \* the POSTs the store has handled, in the order it handled them
    settledLog,    \* the POSTs whose answer has reached the page, in that order
    \* --- category manager (CategoryManagerModal.tsx) and backup modal ---
    editingId,       \* useState<string | null>(null): "" for null
    editName,        \* useState('')
    editPassword,    \* useState('')
    pendingBackups,  \* handleBackupToCloud calls awaiting uploadBackup
    isCatManagerOpen, \* App.tsx line 352
    \* --- the module types.ts ---
    initialCreatedAt \* what the five Date.now() of INITIAL_LINKS returned

expVars == <<eLinks, eCats, html, eNow, draft>>
davVars == <<davResp, davResult>>
appVars == <<links, categories, localCache, authToken, savedToken, isAuthOpen,
             isBackupModalOpen, editingLink, syncStatus, idleTimers, requests, initFetch,
             pendingImports, pendingRestores, backupStatus, clock, ops, rejected, last>>
lockVars == <<selectedCategory, unlockedCategoryIds, searchQuery, catAuthModalData,
              catAuthPassword, catAuthError>>
callVars == <<callOp, callConfig, callResp, callResult>>
storeVars == <<cloudDoc, handledLog, settledLog>>
modalVars == <<editingId, editName, editPassword, pendingBackups, isCatManagerOpen>>
extVars == <<lockVars, callVars, storeVars, modalVars>>
typesVars == <<initialCreatedAt>>
vars == <<expVars, davVars, appVars, extVars, typesVars>>

(***************************************************************************)
(* Bounds of the model.                                                    *)
(***************************************************************************)
MaxExpLinks == 2       \* links in an exported list
MaxExpCats == 2        \* categories in an exported list
MaxStrLen == 4         \* characters typed into a title / name field
MaxOps == 2            \* user operations in one run of the application
MaxClock == 1          \* the largest value Date.now() returns

(***************************************************************************)
(* Records (types.ts).  An absent optional string (icon, password) is the  *)
(* empty text: the code tests both with truthiness.  The Chinese display   *)
(* texts of the source are written in pinyin, one syllable for each        *)
(* character: a syllable is one character of the text, which no escape     *)
(* and no case conversion touches.                                         *)
(***************************************************************************)
NoText == << >>

LinkItem(id, title, url, icon, description, categoryId, createdAt, pinned) ==
    [id |-> id, title |-> title, url |-> url, icon |-> icon, description |-> description,
     categoryId |-> categoryId, createdAt |-> createdAt, pinned |-> pinned]

\* the letters String.prototype.toLowerCase converts
UpperCase ==
    <<"A", "B", "C", "D", "E", "F", "G", "H", "I", "J", "K", "L", "M",
      "N", "O", "P", "Q", "R", "S", "T", "U", "V", "W", "X", "Y", "Z">>
LowerCase ==
    <<"a", "b", "c", "d", "e", "f", "g", "h", "i", "j", "k", "l", "m",
      "n", "o", "p", "q", "r", "s", "t", "u", "v", "w", "x", "y", "z">>
\* String.prototype.toLowerCase
toLowerCase(text) ==
    [i \in DOMAIN text |->
        IF \E k \in DOMAIN UpperCase : UpperCase[k] = text[i]
        THEN LowerCase[CHOOSE k \in DOMAIN UpperCase : UpperCase[k] = text[i]]
        ELSE text[i]]
\* String.prototype.trim
RECURSIVE trim(_)
trim(text) ==
    IF text = << >> THEN text
    ELSE IF Head(text) = " " THEN trim(Tail(text))
    ELSE IF text[Len(text)] = " " THEN trim(SubSeq(text, 1, Len(text) - 1))
    ELSE text
\* String.prototype.includes
includes(text, q) ==
    \E i \in 0..(Len(text) - Len(q)) : SubSeq(text, i + 1, i + Len(q)) = q

Category(id, name, icon, password) ==
    [id |-> id, name |-> name, icon |-> icon, password |-> password]

\* the ids of a category list
CatIdsOf(cats) == {cats[i].id : i \in DOMAIN cats}

DEFAULT_CATEGORIES ==
    << Category("common", <<"Chang", "Yong", "Tui", "Jian">>, "Star", NoText),
       Category("dev", <<"Kai", "Fa", "Gong", "Ju">>, "Code", NoText),
       Category("design", <<"She", "Ji", "Zi", "Yuan">>, "Palette", NoText),
       Category("read", <<"Yue", "Du", "Zi", "Xun">>, "BookOpen", NoText),
       Category("ent", <<"Xiu", "Xian", "Yu", "Le">>, "Gamepad2", NoText),
       Category("ai", <<"Ren", "Gong", "Zhi", "Neng">>, "Bot", NoText) >>

(***************************************************************************)
(* exportService.ts: escapeHtml.  Five global replaces, applied in the     *)
(* order of the source: & first, then < > " '.                             *)
(***************************************************************************)
EntAmp == <<"&", "a", "m", "p", ";">>
EntLt == <<"&", "l", "t", ";">>
EntGt == <<"&", "g", "t", ";">>
EntQuot == <<"&", "q", "u", "o", "t", ";">>
EntApos == <<"&", "#", "0", "3", "9", ";">>

RECURSIVE ReplaceAll(_, _, _)
ReplaceAll(s, ch, rep) ==
    IF s = << >> THEN << >>
    ELSE (IF Head(s) = ch THEN rep ELSE <<Head(s)>>) \o ReplaceAll(Tail(s), ch, rep)

\* A plausible slip: the ampersand replaced last, so the entities written by
\* the earlier replaces are escaped a second time.
escapeHtmlAmpLast(unsafe) ==
    ReplaceAll(ReplaceAll(ReplaceAll(ReplaceAll(ReplaceAll(
        unsafe, "<", EntLt), ">", EntGt), "\"", EntQuot), "'", EntApos), "&", EntAmp)

escapeHtml(unsafe) ==
    ReplaceAll(ReplaceAll(ReplaceAll(ReplaceAll(ReplaceAll(
        unsafe, "&", EntAmp), "<", EntLt), ">", EntGt), "\"", EntQuot), "'", EntApos)

(***************************************************************************)
(* exportService.ts: generateBookmarkHtml.  The document is the sequence   *)
(* of lines the function appends to `html`, one record per `html +=`       *)
(* statement; every line keeps the text exactly as it is embedded.         *)
(***************************************************************************)
NoHtml == << >>     \* nothing generated yet (a generated document is never empty)
UncategorizedName == <<"WeiFenLei">>

Line(kind, href, addDate, iconAttr, text) ==
    [kind |-> kind, href |-> href, addDate |-> addDate, iconAttr |-> iconAttr, text |-> text]

HeaderLine == Line("HEADER", NoText, 0, << >>, NoText)          \* lines 9-17
FolderLine(now, name) == Line("H3", NoText, now, << >>, name)   \* lines 41, 58
OpenListLine == Line("DL", NoText, 0, << >>, NoText)            \* lines 42, 59
CloseListLine == Line("/DL", NoText, 0, << >>, NoText)          \* lines 50, 64, 67

\* Math.floor(link.createdAt / 1000)
AddDate(link) == link.createdAt \div 1000

\* lines 44-48: an anchor of a category folder
CategoryAnchor(link) ==
    Line("A", link.url, AddDate(link),
         IF link.icon # NoText THEN <<link.icon>> ELSE << >>,
         escapeHtml(link.title))

\* lines 60-63: an anchor of the uncategorized folder (no iconAttr in the source)
UncategorizedAnchor(link) ==
    Line("A", link.url, AddDate(link), << >>, escapeHtml(link.title))

\* lines 30-35: the Map from categoryId to the links carrying it, built by one
\* pass over the links; a function whose domain is the set of keys seen.
RECURSIVE GroupLinks(_, _)
GroupLinks(exLinks, map) ==
    IF exLinks = << >> THEN map
    ELSE LET link == Head(exLinks)
             list == IF link.categoryId \in DOMAIN map THEN map[link.categoryId] ELSE << >>
             key == link.categoryId
         IN  GroupLinks(Tail(exLinks),
                 [k \in (DOMAIN map) \cup {key} |->
                     IF k = key THEN Append(list, link) ELSE map[k]])

linksByCat(exLinks) == GroupLinks(exLinks, [k \in {} |-> << >>])

\* lines 44-48: catLinks.forEach
RECURSIVE CategoryAnchors(_)
CategoryAnchors(catLinks) ==
    IF catLinks = << >> THEN << >>
    ELSE <<CategoryAnchor(Head(catLinks))>> \o CategoryAnchors(Tail(catLinks))

\* lines 60-63: uncategorized.forEach
RECURSIVE UncategorizedAnchors(_)
UncategorizedAnchors(uncategorized) ==
    IF uncategorized = << >> THEN << >>
    ELSE <<UncategorizedAnchor(Head(uncategorized))>> \o UncategorizedAnchors(Tail(uncategorized))

\* A plausible slip: a category without links is skipped.
RECURSIVE CategoryFoldersSkipEmpty(_, _, _)
CategoryFoldersSkipEmpty(cats, byCat, now) ==
    IF cats = << >> THEN << >>
    ELSE LET cat == Head(cats)
             catLinks == IF cat.id \in DOMAIN byCat THEN byCat[cat.id] ELSE << >>
         IN  (IF catLinks = << >> THEN << >>
              ELSE <<FolderLine(now, escapeHtml(cat.name)), OpenListLine>>
                   \o CategoryAnchors(catLinks)
                   \o <<CloseListLine>>)
             \o CategoryFoldersSkipEmpty(Tail(cats), byCat, now)

\* lines 38-51: categories.forEach
RECURSIVE CategoryFolders(_, _, _)
CategoryFolders(cats, byCat, now) ==
    IF cats = << >> THEN << >>
    ELSE LET cat == Head(cats)
             catLinks == IF cat.id \in DOMAIN byCat THEN byCat[cat.id] ELSE << >>
         IN  <<FolderLine(now, escapeHtml(cat.name)), OpenListLine>>
             \o CategoryAnchors(catLinks)
             \o <<CloseListLine>>
             \o CategoryFolders(Tail(cats), byCat, now)

\* A plausible slip: the filter keeps the links of known categories as well.
UncategorizedFolderNoFilter(exLinks, exCategories, now) ==
    LET uncategorized == exLinks
    IN  IF Len(uncategorized) > 0
        THEN <<FolderLine(now, UncategorizedName), OpenListLine>>
             \o UncategorizedAnchors(uncategorized)
             \o <<CloseListLine>>
        ELSE << >>

\* lines 54-65
UncategorizedFolder(exLinks, exCategories, now) ==
    LET validCatIds == {exCategories[i].id : i \in DOMAIN exCategories}
        uncategorized == SelectSeq(exLinks, LAMBDA l : l.categoryId \notin validCatIds)
    IN  IF Len(uncategorized) > 0
        THEN <<FolderLine(now, UncategorizedName), OpenListLine>>
             \o UncategorizedAnchors(uncategorized)
             \o <<CloseListLine>>
        ELSE << >>

generateBookmarkHtml(exLinks, exCategories, now) ==
    <<HeaderLine>>
    \o CategoryFolders(exCategories, linksByCat(exLinks), now)
    \o UncategorizedFolder(exLinks, exCategories, now)
    \o <<CloseListLine>>

(***************************************************************************)
(* services/bookmarkParser (parseBookmarks) is imported by App.tsx but is  *)
(* not part of the sources at hand; it is modelled from the contract of    *)
(* the specification (section 4.2) and of the HTML it reads: an attribute  *)
(* written between double quotes ends at the first double quote, text      *)
(* ends at the first '<', and the character references are decoded.        *)
(***************************************************************************)
StartsWith(s, p) == Len(s) >= Len(p) /\ SubSeq(s, 1, Len(p)) = p
Drop(s, n) == SubSeq(s, n + 1, Len(s))

RECURSIVE DecodeEntities(_)
DecodeEntities(s) ==
    IF s = << >> THEN << >>
    ELSE IF StartsWith(s, EntAmp) THEN <<"&">> \o DecodeEntities(Drop(s, Len(EntAmp)))
    ELSE IF StartsWith(s, EntLt) THEN <<"<">> \o DecodeEntities(Drop(s, Len(EntLt)))
    ELSE IF StartsWith(s, EntGt) THEN <<">">> \o DecodeEntities(Drop(s, Len(EntGt)))
    ELSE IF StartsWith(s, EntQuot) THEN <<"\"">> \o DecodeEntities(Drop(s, Len(EntQuot)))
    ELSE IF StartsWith(s, EntApos) THEN <<"'">> \o DecodeEntities(Drop(s, Len(EntApos)))
    ELSE <<Head(s)>> \o DecodeEntities(Tail(s))

RECURSIVE UpTo(_, _)
UpTo(s, ch) ==
    IF s = << >> \/ Head(s) = ch THEN << >> ELSE <<Head(s)>> \o UpTo(Tail(s), ch)

AttrValue(raw) == DecodeEntities(UpTo(raw, "\""))
TextContent(raw) == DecodeEntities(UpTo(raw, "<"))

RECURSIVE ParseLines(_, _)
ParseLines(lines, folder) ==
    IF lines = << >> THEN << >>
    ELSE LET ln == Head(lines)
         IN  IF ln.kind = "H3" THEN ParseLines(Tail(lines), TextContent(ln.text))
             ELSE IF ln.kind = "A"
             THEN <<[title |-> TextContent(ln.text), url |-> AttrValue(ln.href),
                     folder |-> folder]>> \o ParseLines(Tail(lines), folder)
             ELSE ParseLines(Tail(lines), folder)

parseBookmarks(doc) == ParseLines(doc, NoText)

(***************************************************************************)
(* webDavService.ts: downloadBackup.  A response is what fetch() produced: *)
(* it threw, or it carries a status and a body.  The body is either        *)
(* unparsable or a JSON value; only an object has properties, and each of  *)
(* its two properties is again a JSON value (or is missing).               *)
(***************************************************************************)
JsonTypes == {"undefined", "null", "number", "string", "object", "array"}
Field(t, items) == [t |-> t, items |-> items]
Undefined == Field("undefined", << >>)
FieldValues ==
    {Field(t, << >>) : t \in JsonTypes} \cup {Field("array", <<"x">>)}

Body(t, linksField, categoriesField) ==
    [t |-> t, links |-> linksField, categories |-> categoriesField]
Bodies ==
    {Body(t, Undefined, Undefined) : t \in {"invalid", "null", "number", "string", "array"}}
    \cup {Body("object", l, c) : l \in FieldValues, c \in FieldValues}

Statuses == {200, 201, 204, 299, 300, 401, 404, 500}
Response(threw, status, body) == [threw |-> threw, status |-> status, body |-> body]
Responses ==
    {Response(TRUE, 0, Body("invalid", Undefined, Undefined))}
    \cup {Response(FALSE, st, b) : st \in Statuses, b \in Bodies}

\* response.ok
ResponseOk(resp) == resp.status >= 200 /\ resp.status <= 299
\* Array.isArray
IsArray(v) == v.t = "array"
\* data.links / data.categories: a property read; reading one of null throws
GetProp(data, name) ==
    IF data.t = "object" THEN (IF name = "links" THEN data.links ELSE data.categories)
    ELSE Undefined

\* A plausible slip: only the links field is validated.
downloadBackupLinksOnly(resp) ==
    IF resp.threw THEN << >>
    ELSE IF ~ResponseOk(resp) THEN << >>
    ELSE IF resp.body.t = "invalid" THEN << >>
    ELSE IF resp.body.t = "null" THEN << >>
    ELSE IF IsArray(GetProp(resp.body, "links")) THEN <<resp.body>>
    ELSE << >>

\* The result is << >> for null and <<data>> for a returned document.
downloadBackup(resp) ==
    IF resp.threw THEN << >>                              \* catch: fetch rejected
    ELSE IF ~ResponseOk(resp) THEN << >>                  \* line 60
    ELSE IF resp.body.t = "invalid" THEN << >>            \* catch: response.json() rejected
    ELSE IF resp.body.t = "null" THEN << >>               \* catch: TypeError reading data.links
    ELSE IF IsArray(GetProp(resp.body, "links")) /\ IsArray(GetProp(resp.body, "categories"))
         THEN <<resp.body>>                               \* line 64
    ELSE << >>                                            \* line 66

(***************************************************************************)
(* App.tsx: the record set, the local cache and the generic store.         *)
(***************************************************************************)
Doc(l, c) == [links |-> l, categories |-> c]

\* JSON.stringify({links, categories}) as kept under LOCAL_STORAGE_KEY
StoredDoc(l, c) == <<Doc(l, c)>>

\* a POST to /api/storage: the x-auth-password header and the JSON body
\* a POST in flight; `answer` is << >> until the store has handled it
Request(kind, token, body) ==
    [kind |-> kind, token |-> token, body |-> body, answer |-> << >>]

\* what the step just taken did
Step(op, pre, token, closure, catId, parsed, posted, updated) ==
    [op |-> op, pre |-> pre, token |-> token, closure |-> closure, catId |-> catId,
     parsed |-> parsed, posted |-> posted, updated |-> updated]
NoDoc == Doc(<< >>, << >>)
NoStep == Step("none", NoDoc, "", "", "", NoDoc, << >>, FALSE)

RemoveAt(seq, i) == SubSeq(seq, 1, i - 1) \o SubSeq(seq, i + 1, Len(seq))

\* A plausible slip: the POST carries the links only.
SyncRequestsLinksOnly(newLinks, newCategories, closure) ==
    IF closure # ""
    THEN <<Request("sync", closure, Doc(newLinks, << >>))>>
    ELSE << >>

\* lines 416-428: updateData as run by a handler that closed over `closure`
\* as its authToken; a call of syncToCloud (lines 385-394) sets 'saving' and
\* issues the POST.
SyncRequests(newLinks, newCategories, closure) ==
    IF closure # ""
    THEN <<Request("sync", closure, Doc(newLinks, newCategories))>>
    ELSE << >>

\* A plausible slip: the local cache is not written.
updateDataCacheNotWritten(newLinks, newCategories, closure) ==
    /\ links' = newLinks
    /\ categories' = newCategories
    /\ UNCHANGED localCache
    /\ requests' = requests \o SyncRequests(newLinks, newCategories, closure)
    /\ syncStatus' = IF closure # "" THEN "saving" ELSE syncStatus

updateData(newLinks, newCategories, closure) ==
    /\ links' = newLinks
    /\ categories' = newCategories
    /\ localCache' = StoredDoc(newLinks, newCategories)
    /\ requests' = requests \o SyncRequests(newLinks, newCategories, closure)
    /\ syncStatus' = IF closure # "" THEN "saving" ELSE syncStatus

\* the step record of a handler that called updateData
Updated(op, closure, catId, parsed, newLinks, newCategories) ==
    Step(op, Doc(links, categories), authToken, closure, catId, parsed,
         SyncRequests(newLinks, newCategories, closure), TRUE)
\* the step record of a handler that did not: only its name is kept
Plain(op) == Step(op, NoDoc, "", "", "", NoDoc, << >>, FALSE)

\* lines 41-47 of types.ts, used by loadFromLocal (lines 367-382).  A text is
\* the sequence of its characters; a Chinese character is written as its
\* pinyin syllable, one element of the sequence.  Each link reads Date.now()
\* for itself when the module is evaluated.
INITIAL_LINKS ==
    << LinkItem("1",
                <<"G", "i", "t", "H", "u", "b">>,
                <<"h", "t", "t", "p", "s", ":", "/", "/", "g", "i", "t", "h", "u", "b",
                  ".", "c", "o", "m">>,
                NoText,
                <<"Dai", "Ma", "Tuo", "Guan", "Ping", "Tai">>,
                "dev", initialCreatedAt[1], TRUE),
       LinkItem("2",
                <<"R", "e", "a", "c", "t">>,
                <<"h", "t", "t", "p", "s", ":", "/", "/", "r", "e", "a", "c", "t", ".",
                  "d", "e", "v">>,
                NoText,
                <<"Gou", "Jian", "W", "e", "b", "Yong", "Hu", "Jie", "Mian", "De",
                  "Ku">>,
                "dev", initialCreatedAt[2], FALSE),
       LinkItem("3",
                <<"T", "a", "i", "l", "w", "i", "n", "d", " ", "C", "S", "S">>,
                <<"h", "t", "t", "p", "s", ":", "/", "/", "t", "a", "i", "l", "w", "i",
                  "n", "d", "c", "s", "s", ".", "c", "o", "m">>,
                NoText,
                <<"Yuan", "Zi", "Hua", "C", "S", "S", "Kuang", "Jia">>,
                "design", initialCreatedAt[3], FALSE),
       LinkItem("4",
                <<"C", "h", "a", "t", "G", "P", "T">>,
                <<"h", "t", "t", "p", "s", ":", "/", "/", "c", "h", "a", "t", ".", "o",
                  "p", "e", "n", "a", "i", ".", "c", "o", "m">>,
                NoText,
                <<"O", "p", "e", "n", "A", "I", "Liao", "Tian", "Ji", "Qi", "Ren">>,
                "ai", initialCreatedAt[4], TRUE),
       LinkItem("5",
                <<"G", "e", "m", "i", "n", "i">>,
                <<"h", "t", "t", "p", "s", ":", "/", "/", "g", "e", "m", "i", "n", "i",
                  ".", "g", "o", "o", "g", "l", "e", ".", "c", "o", "m">>,
                NoText,
                <<"G", "o", "o", "g", "l", "e", " ", "D", "e", "e", "p", "M", "i", "n",
                  "d", " ", "A", "I">>,
                "ai", initialCreatedAt[5], FALSE) >>

\* A text that JSON.parse rejects, the JSON text `null`, and a JSON object:
\* an object is a record that has the properties the text has.
Unparsable == [unparsable |-> TRUE]
JsonNull == [null |-> TRUE]
IsObject(json) == "unparsable" \notin DOMAIN json /\ "null" \notin DOMAIN json
\* `json.links || fallback`, `json.categories || fallback`
LinksOr(json, fallback) == IF "links" \in DOMAIN json THEN json.links ELSE fallback
CategoriesOr(json, fallback) ==
    IF "categories" \in DOMAIN json THEN json.categories ELSE fallback

\* `stored` is the item under LOCAL_STORAGE_KEY: << >> when there is none.  A
\* text that does not parse throws into the catch, and so does reading a
\* property of null.
LoadedFromLocal(stored) ==
    IF stored = << >> THEN Doc(INITIAL_LINKS, DEFAULT_CATEGORIES)
    ELSE IF ~IsObject(stored[1]) THEN Doc(INITIAL_LINKS, DEFAULT_CATEGORIES)
    ELSE Doc(LinksOr(stored[1], INITIAL_LINKS), CategoriesOr(stored[1], DEFAULT_CATEGORIES))

\* what GET /api/storage came to: fetch rejected, or a response with res.ok
\* and the value of res.json()
LoadResponse(threw, ok, data) == [rejected |-> threw, ok |-> ok, data |-> data]

\* lines 452-468: initData, as the lists it sets and the cache it leaves
initData(resp, stored) ==
    IF /\ ~resp.rejected
       /\ resp.ok
       /\ IsObject(resp.data)                    \* else res.json() or data.links throws
       /\ "links" \in DOMAIN resp.data
       /\ Len(resp.data.links) > 0
    THEN [links |-> resp.data.links,
          categories |-> CategoriesOr(resp.data, DEFAULT_CATEGORIES),
          cache |-> <<resp.data>>]
    ELSE [links |-> LoadedFromLocal(stored).links,
          categories |-> LoadedFromLocal(stored).categories,
          cache |-> stored]

\* lines 524-529: newCats.forEach, pushing the categories whose name is not yet there
RECURSIVE MergeCategories(_, _)
MergeCategories(mergedCategories, newCats) ==
    IF newCats = << >> THEN mergedCategories
    ELSE LET nc == Head(newCats)
             found == \E i \in DOMAIN mergedCategories : mergedCategories[i].name = nc.name
         IN  MergeCategories(IF found THEN mergedCategories ELSE Append(mergedCategories, nc),
                             Tail(newCats))

(***************************************************************************)
(* Input sets of the application specification.                            *)
(***************************************************************************)
Passwords == {"pw1", "pw2"}
CatCommon == DEFAULT_CATEGORIES[1]
CatWork == Category("c1", <<"n">>, "Folder", NoText)
LinkOne == LinkItem("l1", <<"a">>, <<"u">>, NoText, NoText, "c1", 0, FALSE)
LinkTwo == LinkItem("l2", <<"b">>, <<"v">>, NoText, NoText, "common", 0, TRUE)
\* documents a browser may hold in its cache, and the store may hold
CachedDocs == {Doc(<<LinkOne, LinkTwo>>, <<CatCommon, CatWork>>), Doc(<<LinkOne>>, <<CatWork>>)}
RemoteDocs == {Doc(<< >>, << >>), Doc(<<LinkTwo>>, <<CatCommon>>)}
\* what the GET of the initial load may come to
InitResponses ==
    {LoadResponse(FALSE, TRUE, d) : d \in RemoteDocs} \cup {LoadResponse(TRUE, FALSE, NoDoc)}
\* results of parseBookmarks: new links and new categories
ImportedA == Category("p1", <<"n">>, "Folder", NoText)
ImportedB == Category("p2", <<"N">>, "Folder", NoText)
ImportedC == Category("p3", <<"N">>, "Folder", NoText)
ParsedResults ==
    {Doc(<<LinkItem("q1", <<"a">>, <<"u">>, NoText, NoText, "p2", 0, FALSE)>>, <<ImportedA, ImportedB, ImportedC>>),
     Doc(<<LinkItem("q1", <<"a">>, <<"u">>, NoText, NoText, "p1", 0, FALSE)>>, <<ImportedA>>)}
\* what the WebDAV server may answer to the GET of a restore
DocBody(d) == Body("object", Field("array", d.links), Field("array", d.categories))
RestoreResponses ==
    {Response(TRUE, 0, Body("invalid", Undefined, Undefined)),
     Response(FALSE, 404, Body("invalid", Undefined, Undefined)),
     Response(FALSE, 200, Body("object", Field("object", << >>), Field("array", << >>))),
     Response(FALSE, 200, DocBody(Doc(<<LinkTwo>>, <<CatCommon>>)))}
\* outcomes of a POST to /api/storage: a status, or 0 when fetch rejected
PostOutcomes == {200, 401, 500, 0}
\* names and passwords typed into the category manager
TypedNames == {<<"m">>}
TypedPasswords == {NoText, <<"s">>}

(***************************************************************************)
(* Input sets of the codec specifications.                                 *)
(***************************************************************************)
ExpCatIds == {"common", "c1"}
ExpLinkCatIds == ExpCatIds \cup {"gone"}
ExpNames == {<<"n">>, <<"<", "&">>}
ExpTitles == {<<"'", ">">>}
ExpUrls == {<<"u">>, <<"u", "\"", "v">>}
ExpIcons == {NoText, <<"i">>}
ExpTimes == {1999}
ExpNow == {3}
EscChars == {"&", "<", ">", "\"", "'", "l", "t", ";"}

\* Every specification starts with nothing exported and nothing downloaded.
\* types.ts lines 42-46: five reads of Date.now() one after the other, counted
\* from the first
CreatedAtReads ==
    {r \in [1..5 -> 0..MaxClock] : r[1] = 0 /\ \A i \in 1..4 : r[i] <= r[i + 1]}
\* the reads of an evaluation within one tick of the clock
SameTick == [i \in 1..5 |-> 0]

CodecInit ==
    /\ eLinks = << >>
    /\ eCats = << >>
    /\ html = NoHtml
    /\ eNow = 0
    /\ draft = << >>
    /\ davResp = << >>
    /\ davResult = << >>
    /\ links = << >>
    /\ categories = << >>
    /\ localCache = << >>
    /\ authToken = ""
    /\ savedToken = ""
    /\ isAuthOpen = FALSE
    /\ isBackupModalOpen = FALSE
    /\ editingLink = << >>
    /\ syncStatus = "idle"
    /\ idleTimers = 0
    /\ requests = << >>
    /\ initFetch = "pending"
    /\ pendingImports = << >>
    /\ pendingRestores = << >>
    /\ backupStatus = "idle"
    /\ clock = 0
    /\ ops = 0
    /\ rejected = {}
    /\ last = NoStep
    /\ selectedCategory = "all"
    /\ unlockedCategoryIds = {}
    /\ searchQuery = << >>
    /\ catAuthModalData = << >>
    /\ catAuthPassword = << >>
    /\ catAuthError = << >>
    /\ callOp = ""
    /\ callConfig = << >>
    /\ callResp = << >>
    /\ callResult = << >>
    /\ cloudDoc = NoDoc
    /\ handledLog = << >>
    /\ settledLog = << >>
    /\ editingId = ""                                        \* CategoryManagerModal line 20
    /\ editName = << >>                                      \* line 21
    /\ editPassword = << >>                                  \* line 22
    /\ pendingBackups = 0
    /\ isCatManagerOpen = FALSE                             \* line 352
    /\ initialCreatedAt = SameTick

(***************************************************************************)
(* Specification SpecExport: build a link list and a category list, then   *)
(* export them.                                                            *)
(***************************************************************************)
ExpAddCategory ==
    /\ html = NoHtml
    /\ Len(eCats) < MaxExpCats
    /\ \E id \in ExpCatIds, name \in ExpNames :
           eCats' = Append(eCats, Category(id, name, "Folder", NoText))
    /\ UNCHANGED <<eLinks, html, eNow, draft, davVars, typesVars, appVars, extVars>>

ExpAddLink ==
    /\ html = NoHtml
    /\ Len(eLinks) < MaxExpLinks
    /\ \E title \in ExpTitles, url \in ExpUrls, icon \in ExpIcons,
          cid \in ExpLinkCatIds, at \in ExpTimes :
           eLinks' = Append(eLinks,
               LinkItem(ToString(Len(eLinks) + 1), title, url, icon, NoText, cid, at, FALSE))
    /\ UNCHANGED <<eCats, html, eNow, draft, davVars, typesVars, appVars, extVars>>

ExpGenerate ==
    /\ html = NoHtml
    /\ \E now \in ExpNow :
           /\ eNow' = now
           /\ html' = generateBookmarkHtml(eLinks, eCats, now)
    /\ UNCHANGED <<eLinks, eCats, draft, davVars, typesVars, appVars, extVars>>

ExpNext == ExpAddCategory \/ ExpAddLink \/ ExpGenerate

SpecExport == CodecInit /\ [][ExpNext]_vars

(***************************************************************************)
(* Specification SpecEscape: type a text, use it as the title of a link    *)
(* and as the name of a category, and export the two.                      *)
(***************************************************************************)
EscType ==
    /\ html = NoHtml
    /\ Len(draft) < MaxStrLen
    /\ \E ch \in EscChars : draft' = Append(draft, ch)
    /\ UNCHANGED <<eLinks, eCats, html, eNow, davVars, typesVars, appVars, extVars>>

EscGenerate ==
    /\ html = NoHtml
    /\ \E cid \in {"c1", "gone"}, now \in ExpNow :
           /\ eCats' = <<Category("c1", draft, "Folder", NoText)>>
           /\ eLinks' = <<LinkItem("1", draft, <<"u">>, NoText, NoText, cid, 0, FALSE)>>
           /\ eNow' = now
           /\ html' = generateBookmarkHtml(eLinks', eCats', now)
    /\ UNCHANGED <<draft, davVars, typesVars, appVars, extVars>>

EscNext == EscType \/ EscGenerate

SpecEscape == CodecInit /\ [][EscNext]_vars

(***************************************************************************)
(* Specification SpecDav: downloadBackup applied to every response.        *)
(***************************************************************************)
DavDownload ==
    /\ davResp = << >>
    /\ \E resp \in Responses :
           /\ davResp' = <<resp>>
           /\ davResult' = downloadBackup(resp)
    /\ UNCHANGED <<expVars, appVars, extVars, typesVars>>

DavNext == DavDownload

SpecDav == CodecInit /\ [][DavNext]_vars

(***************************************************************************)
(* Specification Spec: the application.  The browser holds a cache of an   *)
(* earlier session and possibly a saved credential; the component has      *)
(* mounted, the mount effect has copied the saved credential into          *)
(* authToken and has started initData's GET.  Handlers run to completion   *)
(* one at a time; a handler that awaits (handleImport, handleLogin,        *)
(* handleRestoreFromCloud, syncToCloud, initData) is split at its await,   *)
(* and its second half runs with the values its first half closed over.    *)
(***************************************************************************)
Init ==
    /\ eLinks = << >>
    /\ eCats = << >>
    /\ html = NoHtml
    /\ eNow = 0
    /\ draft = << >>
    /\ davResp = << >>
    /\ davResult = << >>
    /\ links = << >>
    /\ categories = << >>
    /\ localCache \in {<<d>> : d \in CachedDocs}
    /\ savedToken \in {"", "pw1"}
    /\ authToken = savedToken                                \* lines 440-441
    /\ isAuthOpen = FALSE
    /\ isBackupModalOpen = FALSE
    /\ editingLink = << >>
    /\ syncStatus = "idle"
    /\ idleTimers = 0
    /\ requests = << >>
    /\ initFetch = "pending"                                 \* line 470
    /\ pendingImports = << >>
    /\ pendingRestores = << >>
    /\ backupStatus = "idle"
    /\ initialCreatedAt \in CreatedAtReads                   \* types.ts lines 42-46
    /\ clock = initialCreatedAt[5]
    /\ ops = 0
    /\ rejected = {}
    /\ last = NoStep
    /\ selectedCategory = "all"
    /\ unlockedCategoryIds = {}
    /\ searchQuery = << >>
    /\ catAuthModalData = << >>
    /\ catAuthPassword = << >>
    /\ catAuthError = << >>
    /\ callOp = ""
    /\ callConfig = << >>
    /\ callResp = << >>
    /\ callResult = << >>
    /\ cloudDoc = NoDoc
    /\ handledLog = << >>
    /\ settledLog = << >>
    /\ editingId = ""                                        \* CategoryManagerModal line 20
    /\ editName = << >>                                      \* line 21
    /\ editPassword = << >>                                  \* line 22
    /\ pendingBackups = 0
    /\ isCatManagerOpen = FALSE                             \* line 352

CanOperate == ops < MaxOps
\* Date.now(): the value read last, or a later one
NowValues == {t \in {clock, clock + 1} : t <= MaxClock}
\* a second Date.now() of the same handler, after one that returned t
NowValuesAfter(t) == {u \in {t, t + 1} : u <= MaxClock}
CategoryInputs == CatIdsOf(categories) \cup {"common"}

\* `if (!authToken) { setIsAuthOpen(true); return; }`
AuthPrompt(op) ==
    /\ isAuthOpen' = TRUE
    /\ last' = Plain(op)
    /\ UNCHANGED <<links, categories, localCache, requests, syncStatus>>

\* lines 452-468: initData after its fetch settled as `resp`, with
\* loadFromLocal as fallback
InitDataResponse(resp) ==
    /\ initFetch = "pending"
    /\ initFetch' = "done"
    /\ links' = initData(resp, localCache).links
    /\ categories' = initData(resp, localCache).categories
    /\ localCache' = initData(resp, localCache).cache
    /\ UNCHANGED <<authToken, savedToken, isAuthOpen, isBackupModalOpen, editingLink,
                   syncStatus, idleTimers, requests, pendingImports, pendingRestores,
                   backupStatus, clock, ops, rejected, expVars, davVars, typesVars, extVars>>

InitDataSettled ==
    /\ \E resp \in InitResponses : InitDataResponse(resp)
    /\ last' = Plain("initData")

\* lines 790, 826, 834, 881, 887: a control pressed without a credential
RequireAuth ==
    /\ CanOperate
    /\ ops' = ops + 1
    /\ authToken = ""
    /\ ~isAuthOpen
    /\ isAuthOpen' = TRUE
    /\ last' = Plain("requireAuth")
    /\ UNCHANGED <<links, categories, localCache, authToken, savedToken, isBackupModalOpen,
                   editingLink, syncStatus, idleTimers, requests, initFetch, pendingImports,
                   pendingRestores, backupStatus, clock, rejected, expVars, davVars, typesVars, extVars>>

\* line 834, and lines 104-110 of the modal
OpenBackupModal ==
    /\ CanOperate
    /\ ops' = ops + 1
    /\ authToken # ""
    /\ ~isBackupModalOpen
    /\ isBackupModalOpen' = TRUE
    /\ backupStatus' = "idle"
    /\ last' = Plain("openBackup")
    /\ UNCHANGED <<links, categories, localCache, authToken, savedToken, isAuthOpen,
                   editingLink, syncStatus, idleTimers, requests, initFetch, pendingImports,
                   pendingRestores, clock, rejected, expVars, davVars, typesVars, extVars>>

\* line 742
CloseBackupModal ==
    /\ CanOperate
    /\ ops' = ops + 1
    /\ isBackupModalOpen
    /\ isBackupModalOpen' = FALSE
    /\ last' = Plain("closeBackup")
    /\ UNCHANGED <<links, categories, localCache, authToken, savedToken, isAuthOpen,
                   editingLink, syncStatus, idleTimers, requests, initFetch, pendingImports,
                   pendingRestores, backupStatus, clock, rejected, expVars, davVars, typesVars, extVars>>

(***************************************************************************)
(* Category locking: isCategoryLocked, pinnedLinks and displayedLinks      *)
(* (App.tsx lines 628-661) and the password prompt (CategoryAuthModal).    *)
(* A link without a description has the empty text, which line 651 tests   *)
(* with truthiness.                                                        *)
(***************************************************************************)
\* categories.find(c => c.id === catId): << >> when there is none
FindCategory(cats, catId) ==
    LET hits == {i \in DOMAIN cats : cats[i].id = catId}
    IN  IF hits = {} THEN << >>
        ELSE <<cats[CHOOSE i \in hits : \A j \in hits : i <= j]>>

\* lines 628-632
isCategoryLocked(cats, unlocked, catId) ==
    LET cat == FindCategory(cats, catId)
    IN  IF cat = << >> THEN FALSE                          \* !cat
        ELSE IF cat[1].password = NoText THEN FALSE        \* !cat.password
        ELSE catId \notin unlocked

\* lines 634-637
pinnedLinks(ls, cats, unlocked) ==
    SelectSeq(ls, LAMBDA l : l.pinned /\ ~isCategoryLocked(cats, unlocked, l.categoryId))

\* Array.prototype.sort((a, b) => b.createdAt - a.createdAt), which is stable
RECURSIVE InsertByDate(_, _)
InsertByDate(sorted, l) ==
    IF sorted = << >> THEN <<l>>
    ELSE IF Head(sorted).createdAt >= l.createdAt
         THEN <<Head(sorted)>> \o InsertByDate(Tail(sorted), l)
    ELSE <<l>> \o sorted
RECURSIVE SortNewestFirst(_)
SortNewestFirst(ls) ==
    IF ls = << >> THEN << >>
    ELSE InsertByDate(SortNewestFirst(SubSeq(ls, 1, Len(ls) - 1)), ls[Len(ls)])

\* lines 639-661
displayedLinks(ls, cats, unlocked, selected, query) ==
    LET result == SelectSeq(ls, LAMBDA l : ~isCategoryLocked(cats, unlocked, l.categoryId))
    IN  IF trim(query) # << >>
        THEN LET q == toLowerCase(query)
             IN  SelectSeq(result, LAMBDA l :
                     \/ includes(toLowerCase(l.title), q)
                     \/ includes(toLowerCase(l.url), q)
                     \/ (l.description # NoText /\ includes(toLowerCase(l.description), q)))
        ELSE SortNewestFirst(IF selected # "all"
                             THEN SelectSeq(result, LAMBDA l : l.categoryId = selected)
                             ELSE result)

\* renderLinkCard (lines 664-717) is called for the links of the pinned section
\* (lines 899-910) and for those of the main grid (lines 958-960); the edit,
\* delete and pin buttons exist only on a card
PinnedSectionShown ==
    /\ pinnedLinks(links, categories, unlockedCategoryIds) # << >>
    /\ searchQuery = << >>
    /\ selectedCategory = "all"
CardShown(l) ==
    \/ \E i \in DOMAIN displayedLinks(links, categories, unlockedCategoryIds,
                                      selectedCategory, searchQuery) :
           displayedLinks(links, categories, unlockedCategoryIds,
                          selectedCategory, searchQuery)[i] = l
    \/ /\ PinnedSectionShown
       /\ \E i \in DOMAIN pinnedLinks(links, categories, unlockedCategoryIds) :
              pinnedLinks(links, categories, unlockedCategoryIds)[i] = l

\* line 702
StartEditLink ==
    /\ CanOperate
    /\ ops' = ops + 1
    /\ \E i \in DOMAIN links :
           /\ CardShown(links[i])                            \* lines 909, 959
           /\ editingLink' = <<links[i].id>>
    /\ last' = Plain("startEdit")
    /\ UNCHANGED <<links, categories, localCache, authToken, savedToken, isAuthOpen,
                   isBackupModalOpen, syncStatus, idleTimers, requests, initFetch,
                   pendingImports, pendingRestores, backupStatus, clock, rejected,
                   expVars, davVars, typesVars, extVars>>

\* line 970
CloseLinkModal ==
    /\ CanOperate
    /\ ops' = ops + 1
    /\ editingLink # << >>
    /\ editingLink' = << >>
    /\ last' = Plain("closeEdit")
    /\ UNCHANGED <<links, categories, localCache, authToken, savedToken, isAuthOpen,
                   isBackupModalOpen, syncStatus, idleTimers, requests, initFetch,
                   pendingImports, pendingRestores, backupStatus, clock, rejected,
                   expVars, davVars, typesVars, extVars>>

\* lines 541-549
HandleAddLink ==
    /\ CanOperate
    /\ editingLink = << >>                                   \* line 971
    /\ ops' = ops + 1
    /\ IF authToken = ""
       THEN AuthPrompt("addLink") /\ UNCHANGED clock
       ELSE \E categoryId \in CategoryInputs, idNow \in NowValues :         \* line 545
            \E createdNow \in NowValuesAfter(idNow) :                      \* line 546
                LET newLink == LinkItem(ToString(idNow), <<"a">>, <<"u">>, NoText, NoText,
                                        categoryId, createdNow, FALSE)
                    newLinks == <<newLink>> \o links
                IN  /\ clock' = createdNow
                    /\ updateData(newLinks, categories, authToken)
                    /\ last' = Updated("addLink", authToken, "", NoDoc, newLinks, categories)
                    /\ UNCHANGED isAuthOpen
    /\ UNCHANGED <<authToken, savedToken, isBackupModalOpen, editingLink, idleTimers,
                   initFetch, pendingImports, pendingRestores, backupStatus, rejected,
                   expVars, davVars, typesVars, extVars>>

\* lines 551-557
EditedLink(l, categoryId) == [l EXCEPT !.title = <<"e">>, !.categoryId = categoryId]
HandleEditLink ==
    /\ CanOperate
    /\ editingLink # << >>                                   \* lines 553, 971
    /\ ops' = ops + 1
    /\ IF authToken = ""
       THEN AuthPrompt("editLink") /\ UNCHANGED editingLink
       ELSE \E categoryId \in CategoryInputs :
                LET updated == [i \in DOMAIN links |->
                                   IF links[i].id = editingLink[1]
                                   THEN EditedLink(links[i], categoryId) ELSE links[i]]
                IN  /\ updateData(updated, categories, authToken)
                    /\ editingLink' = << >>
                    /\ last' = Updated("editLink", authToken, "", NoDoc, updated, categories)
                    /\ UNCHANGED isAuthOpen
    /\ UNCHANGED <<authToken, savedToken, isBackupModalOpen, idleTimers, initFetch,
                   pendingImports, pendingRestores, backupStatus, clock, rejected,
                   expVars, davVars, typesVars, extVars>>

\* lines 559-566, the confirmation accepted
HandleDeleteLink ==
    /\ CanOperate
    /\ ops' = ops + 1
    /\ \E k \in DOMAIN links :
           /\ CardShown(links[k])                            \* lines 909, 959
           /\ IF authToken = "" THEN AuthPrompt("deleteLink")
              ELSE LET kept == SelectSeq(links, LAMBDA l : l.id # links[k].id)
                   IN  /\ updateData(kept, categories, authToken)
                       /\ last' = Updated("deleteLink", authToken, "", NoDoc, kept,
                                          categories)
                       /\ UNCHANGED isAuthOpen
    /\ UNCHANGED <<authToken, savedToken, isBackupModalOpen, editingLink, idleTimers,
                   initFetch, pendingImports, pendingRestores, backupStatus, clock, rejected,
                   expVars, davVars, typesVars, extVars>>

\* lines 568-574
TogglePin ==
    /\ CanOperate
    /\ ops' = ops + 1
    /\ \E k \in DOMAIN links :
           /\ CardShown(links[k])                            \* lines 909, 959
           /\ IF authToken = "" THEN AuthPrompt("togglePin")
              ELSE LET updated == [i \in DOMAIN links |->
                                      IF links[i].id = links[k].id
                                      THEN [links[i] EXCEPT !.pinned = ~links[i].pinned]
                                      ELSE links[i]]
                   IN  /\ updateData(updated, categories, authToken)
                       /\ last' = Updated("togglePin", authToken, "", NoDoc, updated,
                                          categories)
                       /\ UNCHANGED isAuthOpen
    /\ UNCHANGED <<authToken, savedToken, isBackupModalOpen, editingLink, idleTimers,
                   initFetch, pendingImports, pendingRestores, backupStatus, clock, rejected,
                   expVars, davVars, typesVars, extVars>>

\* line 790 with a credential: the gear of the sidebar opens the category
\* manager (without one it opens the login prompt: RequireAuth)
OpenCatManager ==
    /\ authToken # ""
    /\ ~isCatManagerOpen
    /\ isCatManagerOpen' = TRUE
    /\ last' = Plain("openCategoryManager")
    /\ UNCHANGED <<links, categories, localCache, authToken, savedToken, isAuthOpen,
                   isBackupModalOpen, editingLink, syncStatus, idleTimers, requests,
                   initFetch, pendingImports, pendingRestores, backupStatus, clock, ops,
                   rejected, expVars, davVars, typesVars, lockVars, callVars, storeVars,
                   editingId, editName, editPassword, pendingBackups>>

\* line 734, from the close button of the manager (CategoryManagerModal line
\* 74); the state of its edit row stays as it is
CloseCatManager ==
    /\ isCatManagerOpen
    /\ isCatManagerOpen' = FALSE
    /\ last' = Plain("closeCategoryManager")
    /\ UNCHANGED <<links, categories, localCache, authToken, savedToken, isAuthOpen,
                   isBackupModalOpen, editingLink, syncStatus, idleTimers, requests,
                   initFetch, pendingImports, pendingRestores, backupStatus, clock, ops,
                   rejected, expVars, davVars, typesVars, lockVars, callVars, storeVars,
                   editingId, editName, editPassword, pendingBackups>>

\* lines 594-597
HandleUpdateCategories(op, newCats) ==
    IF authToken = "" THEN AuthPrompt(op)
    ELSE /\ updateData(links, newCats, authToken)
         /\ last' = Updated(op, authToken, "", NoDoc, links, newCats)
         /\ UNCHANGED isAuthOpen

\* A plausible slip: the category is copied over its neighbour instead of
\* being swapped with it.
handleMoveCopying(cats, index, direction) ==
    IF direction = "up" /\ index > 1
    THEN [cats EXCEPT ![index - 1] = cats[index]]
    ELSE IF direction = "down" /\ index < Len(cats)
    THEN [cats EXCEPT ![index + 1] = cats[index]]
    ELSE cats

\* CategoryManagerModal.tsx lines 29-37 (positions count from 1 here)
handleMove(cats, index, direction) ==
    IF direction = "up" /\ index > 1
    THEN [cats EXCEPT ![index] = cats[index - 1], ![index - 1] = cats[index]]
    ELSE IF direction = "down" /\ index < Len(cats)
    THEN [cats EXCEPT ![index] = cats[index + 1], ![index + 1] = cats[index]]
    ELSE cats

\* the arrows of the category manager (an arrow at the end of the list is disabled)
CatHandleMove ==
    /\ isCatManagerOpen                                      \* CategoryManagerModal line 27
    /\ CanOperate
    /\ ops' = ops + 1
    /\ \E index \in DOMAIN categories, direction \in {"up", "down"} :
           /\ direction = "up" => index # 1                  \* line 87
           /\ direction = "down" => index # Len(categories)  \* line 94
           /\ HandleUpdateCategories("moveCategory", handleMove(categories, index, direction))
    /\ UNCHANGED <<authToken, savedToken, isBackupModalOpen, editingLink, idleTimers,
                   initFetch, pendingImports, pendingRestores, backupStatus, clock, rejected,
                   expVars, davVars, typesVars, extVars>>

\* CategoryManagerModal.tsx lines 39-43, from the pencil of a row that is not
\* being edited (line 142)
CatStartEdit ==
    /\ isCatManagerOpen                                      \* CategoryManagerModal line 27
    /\ CanOperate
    /\ ops' = ops + 1
    /\ \E k \in DOMAIN categories :
           LET cat == categories[k]
           IN  /\ cat.id # editingId
               /\ editingId' = cat.id
               /\ editName' = cat.name
               /\ editPassword' = cat.password               \* cat.password || ''
    /\ last' = Plain("startEditCategory")
    /\ UNCHANGED <<links, categories, localCache, authToken, savedToken, isAuthOpen,
                   isBackupModalOpen, editingLink, syncStatus, idleTimers, requests,
                   initFetch, pendingImports, pendingRestores, backupStatus, clock, rejected,
                   expVars, davVars, typesVars, lockVars, callVars, storeVars, pendingBackups,
                   isCatManagerOpen>>

\* line 103: the row of the category being edited shows the two inputs and
\* the save button; every other row shows the pencil and the delete button
EditRowShown ==
    /\ isCatManagerOpen                                      \* line 27
    /\ \E k \in DOMAIN categories : categories[k].id = editingId

\* line 108: the name input of the row being edited (setEditName)
CatEditName ==
    /\ EditRowShown
    /\ \E name \in TypedNames :
           /\ name # editName
           /\ editName' = name
    /\ last' = Plain("typeCategory")
    /\ UNCHANGED <<links, categories, localCache, authToken, savedToken, isAuthOpen,
                   isBackupModalOpen, editingLink, syncStatus, idleTimers, requests,
                   initFetch, pendingImports, pendingRestores, backupStatus, clock, ops,
                   rejected, expVars, davVars, typesVars, lockVars, callVars, storeVars,
                   editingId, editPassword, pendingBackups,
                   isCatManagerOpen>>

\* line 118: the password input of the row being edited (setEditPassword)
CatEditPassword ==
    /\ EditRowShown
    /\ \E password \in TypedPasswords :
           /\ password # editPassword
           /\ editPassword' = password
    /\ last' = Plain("typeCategory")
    /\ UNCHANGED <<links, categories, localCache, authToken, savedToken, isAuthOpen,
                   isBackupModalOpen, editingLink, syncStatus, idleTimers, requests,
                   initFetch, pendingImports, pendingRestores, backupStatus, clock, ops,
                   rejected, expVars, davVars, typesVars, lockVars, callVars, storeVars,
                   editingId, editName, pendingBackups,
                   isCatManagerOpen>>

\* lines 47-51: the list saveEdit hands to onUpdateCategories
saveEdit(cats, id, name, password) ==
    [i \in DOMAIN cats |->
        IF cats[i].id = id
        THEN [cats[i] EXCEPT !.name = trim(name),
                             !.password = trim(password)]     \* '' || undefined
        ELSE cats[i]]

\* lines 45-54: saveEdit, from the save button of the row being edited (line
\* 139), with the editingId stored by startEdit and the list of this render
CatSaveEdit ==
    /\ EditRowShown                                          \* lines 103, 138
    /\ editingId # ""                                        \* line 46
    /\ trim(editName) # << >>                                \* line 46
    /\ HandleUpdateCategories("saveCategory",
                              saveEdit(categories, editingId, editName, editPassword))
    /\ editingId' = ""                                       \* line 53
    /\ UNCHANGED <<authToken, savedToken, isBackupModalOpen, editingLink, idleTimers,
                   initFetch, pendingImports, pendingRestores, backupStatus, clock, ops,
                   rejected, expVars, davVars, typesVars, lockVars, callVars, storeVars,
                   editName, editPassword, pendingBackups,
                   isCatManagerOpen>>

\* CategoryManagerModal.tsx lines 56-67
CatHandleAdd ==
    /\ isCatManagerOpen                                      \* CategoryManagerModal line 27
    /\ CanOperate
    /\ ops' = ops + 1
    /\ \E newCatName \in TypedNames, newCatPassword \in TypedPasswords, t \in NowValues :
           LET newCat == Category(ToString(t), newCatName, "Folder", newCatPassword)
           IN  /\ clock' = t
               /\ HandleUpdateCategories("addCategory", Append(categories, newCat))
    /\ UNCHANGED <<authToken, savedToken, isBackupModalOpen, editingLink, idleTimers,
                   initFetch, pendingImports, pendingRestores, backupStatus, rejected,
                   expVars, davVars, typesVars, extVars>>

\* A plausible slip: the links of the deleted category are dropped.
ReassignedLinksDropped(ls, catId, targetId) ==
    SelectSeq(ls, LAMBDA l : l.categoryId # catId)

\* line 604
ReassignedLinks(ls, catId, targetId) ==
    [i \in DOMAIN ls |->
        IF ls[i].categoryId = catId THEN [ls[i] EXCEPT !.categoryId = targetId] ELSE ls[i]]

\* A plausible slip: the default category is not put back.
RemainingCategoriesNoDefault(cats, catId) ==
    SelectSeq(cats, LAMBDA c : c.id # catId)

\* lines 601 and 606-610
RemainingCategories(cats, catId) ==
    LET filtered == SelectSeq(cats, LAMBDA c : c.id # catId)
    IN  IF Len(filtered) = 0 THEN <<DEFAULT_CATEGORIES[1]>> ELSE filtered

\* lines 599-612, from the delete button of a row that is not being edited
\* (CategoryManagerModal lines 138-149), the confirmation accepted
HandleDeleteCategory ==
    /\ isCatManagerOpen                                      \* CategoryManagerModal line 27
    /\ CanOperate
    /\ ops' = ops + 1
    /\ \E k \in DOMAIN categories :
           LET catId == categories[k].id
               targetId == "common"
               newLinks == ReassignedLinks(links, catId, targetId)
               newCats == RemainingCategories(categories, catId)
           IN  /\ catId # editingId
               /\ IF authToken = "" THEN AuthPrompt("deleteCategory")
                  ELSE /\ updateData(newLinks, newCats, authToken)
                       /\ last' = Updated("deleteCategory", authToken, catId, NoDoc,
                                          newLinks, newCats)
                       /\ UNCHANGED isAuthOpen
    /\ UNCHANGED <<authToken, savedToken, isBackupModalOpen, editingLink, idleTimers,
                   initFetch, pendingImports, pendingRestores, backupStatus, clock, rejected,
                   expVars, davVars, typesVars, extVars>>

\* lines 511-522: handleImport up to `await parseBookmarks(file)`
Closure == [links |-> links, categories |-> categories, authToken |-> authToken]
HandleImport ==
    /\ CanOperate
    /\ ops' = ops + 1
    /\ IF authToken = ""
       THEN AuthPrompt("import") /\ UNCHANGED pendingImports
       ELSE /\ pendingImports' = Append(pendingImports, Closure)
            /\ last' = Plain("import")
            /\ UNCHANGED <<links, categories, localCache, requests, syncStatus, isAuthOpen>>
    /\ UNCHANGED <<authToken, savedToken, isBackupModalOpen, editingLink, idleTimers,
                   initFetch, pendingRestores, backupStatus, clock, rejected,
                   expVars, davVars, typesVars, extVars>>

\* lines 522-533: handleImport after parseBookmarks resolved
HandleImportParsed ==
    /\ \E k \in DOMAIN pendingImports, parsed \in ParsedResults :
           LET c == pendingImports[k]
               mergedCategories == MergeCategories(c.categories, parsed.categories)
               mergedLinks == c.links \o parsed.links
           IN  /\ updateData(mergedLinks, mergedCategories, c.authToken)
               /\ last' = Step("importDone", Doc(links, categories), authToken,
                               c.authToken, "", parsed,
                               SyncRequests(mergedLinks, mergedCategories, c.authToken), TRUE)
               /\ pendingImports' = RemoveAt(pendingImports, k)
    /\ UNCHANGED <<authToken, savedToken, isAuthOpen, isBackupModalOpen, editingLink,
                   idleTimers, initFetch, pendingRestores, backupStatus, clock, ops, rejected,
                   expVars, davVars, typesVars, extVars>>

\* lines 534-536: parseBookmarks rejected
HandleImportFailed ==
    /\ \E k \in DOMAIN pendingImports : pendingImports' = RemoveAt(pendingImports, k)
    /\ last' = Plain("importFailed")
    /\ UNCHANGED <<links, categories, localCache, authToken, savedToken, isAuthOpen,
                   isBackupModalOpen, editingLink, syncStatus, idleTimers, requests,
                   initFetch, pendingRestores, backupStatus, clock, ops, rejected,
                   expVars, davVars, typesVars, extVars>>

\* BackupModal lines 141-146: handleRestoreFromCloud, confirmed, up to its await
HandleRestoreFromCloud ==
    /\ CanOperate
    /\ isBackupModalOpen
    /\ ops' = ops + 1
    /\ backupStatus' = "downloading"
    /\ pendingRestores' = Append(pendingRestores, Closure)
    /\ last' = Plain("restore")
    /\ UNCHANGED <<links, categories, localCache, authToken, savedToken, isAuthOpen,
                   isBackupModalOpen, editingLink, syncStatus, idleTimers, requests,
                   initFetch, pendingImports, clock, rejected, expVars, davVars, typesVars, extVars>>

\* BackupModal line 142: the confirmation declined
HandleRestoreDeclined ==
    /\ CanOperate
    /\ isBackupModalOpen
    /\ ops' = ops + 1
    /\ last' = Plain("restoreDeclined")
    /\ UNCHANGED <<links, categories, localCache, authToken, savedToken, isAuthOpen,
                   isBackupModalOpen, editingLink, syncStatus, idleTimers, requests,
                   initFetch, pendingImports, pendingRestores, backupStatus, clock,
                   rejected, expVars, davVars, typesVars, extVars>>

\* A plausible slip: the backup is merged into the lists held, as an import is.
handleRestoreBackupMerging(restoredLinks, restoredCategories, closure) ==
    /\ updateData(closure.links \o restoredLinks,
                  MergeCategories(closure.categories, restoredCategories),
                  closure.authToken)
    /\ isBackupModalOpen' = FALSE

\* lines 620-623, run by the handler that closed over `closure`
handleRestoreBackup(restoredLinks, restoredCategories, closure) ==
    /\ updateData(restoredLinks, restoredCategories, closure.authToken)
    /\ isBackupModalOpen' = FALSE

\* BackupModal lines 146-155 and App lines 620-623: after downloadBackup resolved
RestoreSettled ==
    /\ \E k \in DOMAIN pendingRestores, resp \in RestoreResponses :
           LET c == pendingRestores[k]
               data == downloadBackup(resp)
           IN  /\ pendingRestores' = RemoveAt(pendingRestores, k)
               /\ IF data # << >>
                  THEN LET restoredLinks == data[1].links.items
                           restoredCategories == data[1].categories.items
                       IN  /\ handleRestoreBackup(restoredLinks, restoredCategories, c)
                           /\ backupStatus' = "success"
                           /\ last' = Step("restoreDone", Doc(links, categories), authToken,
                                           c.authToken, "",
                                           Doc(restoredLinks, restoredCategories),
                                           SyncRequests(restoredLinks, restoredCategories,
                                                        c.authToken), TRUE)
                  ELSE /\ backupStatus' = "error"
                       /\ last' = Plain("restoreFailed")
                       /\ UNCHANGED <<links, categories, localCache, requests, syncStatus,
                                      isBackupModalOpen>>
    /\ UNCHANGED <<authToken, savedToken, isAuthOpen, editingLink, idleTimers, initFetch,
                   pendingImports, clock, ops, rejected, expVars, davVars, typesVars, extVars>>

\* lines 487-496: handleLogin up to its await (the prompt calls it with the text typed)
HandleLogin ==
    /\ CanOperate
    /\ isAuthOpen
    /\ ops' = ops + 1
    /\ \E password \in Passwords :
           /\ requests' = Append(requests, Request("login", password, Doc(links, categories)))
           /\ last' = Step("login", NoDoc, authToken, password, "", NoDoc,
                           <<Request("login", password, Doc(links, categories))>>, FALSE)
    /\ rejected' = {}
    /\ UNCHANGED <<links, categories, localCache, authToken, savedToken, isAuthOpen,
                   isBackupModalOpen, editingLink, syncStatus, idleTimers, initFetch,
                   pendingImports, pendingRestores, backupStatus, clock, expVars, davVars, typesVars, extVars>>

\* A plausible slip: an accepted password is kept in memory only.
LoginResponseNotPersisted(k, outcome) ==
    LET r == requests[k]
    IN  /\ r.kind = "login"
        /\ requests' = RemoveAt(requests, k)
        /\ IF outcome >= 200 /\ outcome <= 299
           THEN /\ authToken' = r.token
                /\ isAuthOpen' = FALSE
                /\ syncStatus' = "saved"
                /\ last' = Step("loginOk", NoDoc, authToken, r.token, "", NoDoc,
                                << >>, FALSE)
                /\ UNCHANGED savedToken
           ELSE /\ last' = Step("loginFailed", NoDoc, authToken, r.token, "", NoDoc,
                                << >>, FALSE)
                /\ UNCHANGED <<authToken, savedToken, isAuthOpen, syncStatus>>
        /\ UNCHANGED <<links, categories, localCache, isBackupModalOpen, editingLink,
                       idleTimers, initFetch, pendingImports, pendingRestores, backupStatus,
                       clock, ops, rejected, expVars, davVars, typesVars, lockVars, callVars, modalVars>>

\* lines 498-508: handleLogin after its POST number k settled with `outcome`
LoginResponse(k, outcome) ==
    LET r == requests[k]
    IN  /\ r.kind = "login"
        /\ requests' = RemoveAt(requests, k)
        /\ IF outcome >= 200 /\ outcome <= 299
           THEN /\ authToken' = r.token
                /\ savedToken' = r.token
                /\ isAuthOpen' = FALSE
                /\ syncStatus' = "saved"
                /\ last' = Step("loginOk", NoDoc, authToken, r.token, "", NoDoc,
                                << >>, FALSE)
           ELSE /\ last' = Step("loginFailed", NoDoc, authToken, r.token, "", NoDoc,
                                << >>, FALSE)
                /\ UNCHANGED <<authToken, savedToken, isAuthOpen, syncStatus>>
        /\ UNCHANGED <<links, categories, localCache, isBackupModalOpen, editingLink,
                       idleTimers, initFetch, pendingImports, pendingRestores, backupStatus,
                       clock, ops, rejected, expVars, davVars, typesVars, lockVars, callVars, modalVars>>

LoginSettled ==
    /\ \E k \in DOMAIN requests, outcome \in PostOutcomes : LoginResponse(k, outcome)
    /\ UNCHANGED storeVars

\* lines 400, 405, 411: the status set when POST number k of `inflight` settled
\* (neither the status shown nor the position of the request is looked at)
SettledStatus(current, k, inflight, outcome) ==
    IF outcome >= 200 /\ outcome <= 299 THEN "saved" ELSE "error"

\* lines 396-413: syncToCloud after its POST number k settled with `outcome`
SyncResponse(k, outcome) ==
    LET r == requests[k]
    IN  /\ r.kind = "sync"
        /\ requests' = RemoveAt(requests, k)
        /\ syncStatus' = SettledStatus(syncStatus, k, Len(requests), outcome)
        /\ IF outcome = 401
           THEN /\ authToken' = ""
                /\ savedToken' = ""
                /\ isAuthOpen' = TRUE
                /\ rejected' = rejected \cup {r.token}
                /\ last' = Step("sync401", NoDoc, authToken, r.token, "", NoDoc,
                                << >>, FALSE)
                /\ UNCHANGED idleTimers
           ELSE IF outcome >= 200 /\ outcome <= 299
           THEN /\ idleTimers' = idleTimers + 1
                /\ last' = Step("syncOk", NoDoc, authToken, r.token, "", NoDoc,
                                << >>, FALSE)
                /\ UNCHANGED <<authToken, savedToken, isAuthOpen, rejected>>
           ELSE /\ last' = Step("syncFailed", NoDoc, authToken, r.token, "", NoDoc,
                                << >>, FALSE)
                /\ UNCHANGED <<authToken, savedToken, isAuthOpen, rejected, idleTimers>>
        /\ UNCHANGED <<links, categories, localCache, isBackupModalOpen, editingLink,
                       initFetch, pendingImports, pendingRestores, backupStatus, clock, ops,
                       expVars, davVars, typesVars, lockVars, modalVars>>

SyncSettled ==
    /\ \E k \in DOMAIN requests, outcome \in PostOutcomes : SyncResponse(k, outcome)
    /\ UNCHANGED <<callVars, storeVars>>

\* line 407: the timer set by a successful sync fires
IdleTimerFired ==
    /\ idleTimers > 0
    /\ idleTimers' = idleTimers - 1
    /\ syncStatus' = "idle"
    /\ last' = Plain("idleTimer")
    /\ UNCHANGED <<links, categories, localCache, authToken, savedToken, isAuthOpen,
                   isBackupModalOpen, editingLink, requests, initFetch, pendingImports,
                   pendingRestores, backupStatus, clock, ops, rejected, expVars, davVars, typesVars, extVars>>

(***************************************************************************)
(* Specification SpecLock: the application after its load, with a record   *)
(* set that holds two protected categories, a category added without a    *)
(* password in the millisecond the clock still shows, a link of a category *)
(* that no longer exists, either every link or the default category        *)
(* shown, and the category manager open.                                   *)
(***************************************************************************)
CatSecret == Category("c2", <<"S">>, "Folder", <<"s">>)
CatGuarded == Category("c1", <<"n">>, "Folder", <<"t">>)
\* CategoryManagerModal lines 56-68 with Date.now() = 0
CatAdded == Category("0", <<"m">>, "Folder", NoText)
LockCategories == <<CatCommon, CatGuarded, CatSecret, CatAdded>>
LockLinks ==
    << LinkItem("x1", <<"a">>, <<"u">>, NoText, <<"B">>, "common", 1, TRUE),
       LinkItem("x2", <<"A", "b">>, <<"v">>, NoText, NoText, "c2", 2, TRUE),
       LinkItem("x3", <<"c">>, <<"u">>, NoText, <<"b">>, "c2", 3, FALSE),
       LinkItem("x4", <<"a", "b">>, <<"v">>, NoText, NoText, "gone", 2, TRUE) >>
\* what is typed into the search box and into the password prompt
Queries == {<< >>, <<" ">>, <<"B">>}
TypedUnlocks == {NoText, <<"s">>, <<"t">>}
WrongPassword == <<"Mi", "Ma", "Cuo", "Wu">>

LockInit ==
    /\ eLinks = << >>
    /\ eCats = << >>
    /\ html = NoHtml
    /\ eNow = 0
    /\ draft = << >>
    /\ davResp = << >>
    /\ davResult = << >>
    /\ links = LockLinks
    /\ categories = LockCategories
    /\ localCache = StoredDoc(LockLinks, LockCategories)
    /\ savedToken = "pw1"
    /\ authToken = "pw1"
    /\ isAuthOpen = FALSE
    /\ isBackupModalOpen = FALSE
    /\ editingLink = << >>
    /\ syncStatus = "idle"
    /\ idleTimers = 0
    /\ requests = << >>
    /\ initFetch = "done"
    /\ pendingImports = << >>
    /\ pendingRestores = << >>
    /\ backupStatus = "idle"
    /\ clock = 0
    /\ ops = 0
    /\ rejected = {}
    /\ last = NoStep
    /\ selectedCategory \in {"all", "common"}                \* line 334, line 803
    /\ unlockedCategoryIds = {}                              \* line 340
    /\ searchQuery = << >>                                   \* line 335
    /\ catAuthModalData = << >>                              \* line 355
    /\ catAuthPassword = << >>
    /\ catAuthError = << >>
    /\ callOp = ""
    /\ callConfig = << >>
    /\ callResp = << >>
    /\ callResult = << >>
    /\ cloudDoc = NoDoc
    /\ handledLog = << >>
    /\ settledLog = << >>
    /\ editingId = ""                                        \* CategoryManagerModal line 20
    /\ editName = << >>                                      \* line 21
    /\ editPassword = << >>                                  \* line 22
    /\ pendingBackups = 0
    /\ isCatManagerOpen = TRUE                              \* opened by line 790
    /\ initialCreatedAt = SameTick

\* what a step of the password prompt leaves alone
PromptStep(op) ==
    /\ last' = Plain(op)
    /\ UNCHANGED <<links, categories, localCache, authToken, savedToken, isAuthOpen,
                   isBackupModalOpen, editingLink, syncStatus, idleTimers, requests,
                   initFetch, pendingImports, pendingRestores, backupStatus, clock, ops,
                   rejected, expVars, davVars, typesVars, callVars, storeVars, modalVars>>

\* what a step of the sidebar or the search box leaves alone
LockStep(op) ==
    /\ CanOperate
    /\ ops' = ops + 1
    /\ last' = Plain(op)
    /\ UNCHANGED <<links, categories, localCache, authToken, savedToken, isAuthOpen,
                   isBackupModalOpen, editingLink, syncStatus, idleTimers, requests,
                   initFetch, pendingImports, pendingRestores, backupStatus, clock,
                   rejected, expVars, davVars, typesVars, callVars, storeVars, modalVars>>

\* line 580: cat.password && !unlockedCategoryIds.has(catId)
NeedsUnlock(cat, unlocked) == cat.password # NoText /\ cat.id \notin unlocked

\* lines 578-587, from the sidebar (line 802)
HandleCategoryClick ==
    /\ \E k \in DOMAIN categories :
           LET cat == categories[k]
           IN  IF NeedsUnlock(cat, unlockedCategoryIds)
               THEN /\ catAuthModalData' = <<cat>>
                    /\ UNCHANGED selectedCategory
               ELSE /\ selectedCategory' = cat.id
                    /\ UNCHANGED catAuthModalData
    /\ UNCHANGED <<unlockedCategoryIds, searchQuery, catAuthPassword, catAuthError>>
    /\ LockStep("view")

\* line 776
SelectAll ==
    /\ selectedCategory' = "all"
    /\ UNCHANGED <<unlockedCategoryIds, searchQuery, catAuthModalData, catAuthPassword,
                   catAuthError>>
    /\ LockStep("view")

\* line 869
SetSearchQuery ==
    /\ \E q \in Queries : searchQuery' = q
    /\ UNCHANGED <<selectedCategory, unlockedCategoryIds, catAuthModalData, catAuthPassword,
                   catAuthError>>
    /\ LockStep("view")

\* lines 941-947: the button shown in place of the links of a locked category
PromptForSelected ==
    /\ displayedLinks(links, categories, unlockedCategoryIds, selectedCategory,
                      searchQuery) = << >>
    /\ isCategoryLocked(categories, unlockedCategoryIds, selectedCategory)
    /\ catAuthModalData' = FindCategory(categories, selectedCategory)
    /\ UNCHANGED <<selectedCategory, unlockedCategoryIds, searchQuery, catAuthPassword,
                   catAuthError>>
    /\ PromptStep("view")

\* CategoryAuthModal: the password field (onChange)
CatAuthType ==
    /\ catAuthModalData # << >>
    /\ \E text \in TypedUnlocks : catAuthPassword' = text
    /\ UNCHANGED <<selectedCategory, unlockedCategoryIds, searchQuery, catAuthModalData,
                   catAuthError>>
    /\ PromptStep("view")

\* CategoryAuthModal line 20: password === category.password
PasswordMatches(password, category) == password = category.password

\* CategoryAuthModal lines 18-28 (handleSubmit) and App lines 589-592
\* (handleUnlockCategory); the submit button is disabled while the field is
\* empty (line 67)
CatAuthSubmit ==
    /\ catAuthModalData # << >>
    /\ catAuthPassword # << >>                               \* line 67
    /\ LET category == catAuthModalData[1]
       IN  IF PasswordMatches(catAuthPassword, category)
           THEN /\ unlockedCategoryIds' = unlockedCategoryIds \cup {category.id}
                /\ selectedCategory' = category.id
                /\ catAuthPassword' = << >>
                /\ catAuthError' = << >>
                /\ catAuthModalData' = << >>
           ELSE /\ catAuthError' = WrongPassword
                /\ UNCHANGED <<unlockedCategoryIds, selectedCategory, catAuthPassword,
                               catAuthModalData>>
    /\ UNCHANGED searchQuery
    /\ PromptStep("unlockSubmit")

\* line 728: onClose
CatAuthClose ==
    /\ catAuthModalData # << >>
    /\ catAuthModalData' = << >>
    /\ UNCHANGED <<selectedCategory, unlockedCategoryIds, searchQuery, catAuthPassword,
                   catAuthError>>
    /\ PromptStep("view")

(***************************************************************************)
(* The transport operations as calls: checkWebDavConnection, uploadBackup  *)
(* and downloadBackup of webDavService.ts, and syncToCloud of App.tsx.     *)
(* An evaluation ends normally with a value or by throwing; `fetches`      *)
(* counts the calls of fetch() it made.  Values are "true", "false",       *)
(* "null" and "data".                                                      *)
(***************************************************************************)
Returns(v, n) == [threw |-> FALSE, value |-> v, fetches |-> n]
Throws(n) == [threw |-> TRUE, value |-> "none", fetches |-> n]

\* A plausible slip: the error is passed on to the caller.
TryCatchRethrow(body, fallback) == body

\* try { body } catch (error) { console.error(...); return fallback; }
TryCatch(body, fallback) ==
    IF body.threw THEN Returns(fallback, body.fetches) ELSE body

\* a WebDavConfig: whether url ends with '/', and whether username and
\* password are Latin-1 text (btoa of line 6 throws on anything else)
WebDavConfig(slash, latin1) == [slash |-> slash, latin1 |-> latin1]
Configs == {WebDavConfig(s, l) : s \in BOOLEAN, l \in BOOLEAN}

\* lines 9-24
checkWebDavConnection(config, resp) ==
    TryCatch(IF ~config.latin1 THEN Throws(0)                       \* line 14: encodeAuth
             ELSE IF resp.threw THEN Throws(1)                      \* line 11: fetch rejected
             ELSE Returns(IF resp.status = 207 \/ resp.status = 200 \* line 19
                          THEN "true" ELSE "false", 1),
             "false")

\* A plausible slip: only 200, 201 and 204 are taken for success.
UploadSucceededExactCodes(resp) ==
    resp.status = 200 \/ resp.status = 201 \/ resp.status = 204

\* line 41
UploadSucceeded(resp) == ResponseOk(resp) \/ resp.status = 201 \/ resp.status = 204

\* lines 26-46
uploadBackup(config, resp) ==
    TryCatch(IF ~config.latin1 THEN Throws(0)                       \* line 35: encodeAuth
             ELSE IF resp.threw THEN Throws(1)                      \* line 32: fetch rejected
             ELSE Returns(IF UploadSucceeded(resp) THEN "true" ELSE "false", 1),
             "false")

\* lines 48-71, with the Authorization header of line 56
downloadBackupCall(config, resp) ==
    TryCatch(IF ~config.latin1 THEN Throws(0)                       \* line 56: encodeAuth
             ELSE IF resp.threw THEN Throws(1)                      \* line 53: fetch rejected
             ELSE Returns(IF downloadBackup(resp) = << >> THEN "null" ELSE "data", 1),
             "null")

\* App.tsx lines 384-414: what syncToCloud returns
syncToCloud(resp) ==
    TryCatch(IF resp.threw THEN Throws(1)                           \* line 387: fetch rejected
             ELSE IF resp.status = 401
                  THEN Returns("false", 1)                          \* lines 396-401
             ELSE IF ~ResponseOk(resp) THEN Throws(1)               \* line 403
             ELSE Returns("true", 1),                               \* line 407
             "false")

\* statuses and responses the calls are tried on
CallStatuses == Statuses \cup {199, 207}
SmallBodies ==
    {Body("invalid", Undefined, Undefined),
     Body("object", Field("array", << >>), Field("array", << >>)),
     Body("object", Field("array", << >>), Field("string", << >>))}
CallResponses ==
    {Response(TRUE, 0, Body("invalid", Undefined, Undefined))}
    \cup {Response(FALSE, st, b) : st \in CallStatuses, b \in SmallBodies}

(***************************************************************************)
(* The backup modal's upload and its configuration form (BackupModal       *)
(* lines 104-139, App.tsx lines 615-618), and the steps of the             *)
(* application.                                                            *)
(***************************************************************************)
\* BackupModal lines 128-130: handleBackupToCloud up to its await
HandleBackupToCloud ==
    /\ CanOperate
    /\ isBackupModalOpen
    /\ ops' = ops + 1
    /\ backupStatus' = "uploading"
    /\ pendingBackups' = pendingBackups + 1
    /\ last' = Plain("backup")
    /\ UNCHANGED <<links, categories, localCache, authToken, savedToken, isAuthOpen,
                   isBackupModalOpen, editingLink, syncStatus, idleTimers, requests,
                   initFetch, pendingImports, pendingRestores, clock, rejected,
                   expVars, davVars, typesVars, lockVars, callVars, storeVars,
                   editingId, editName, editPassword, isCatManagerOpen>>

\* BackupModal lines 131-138: after uploadBackup resolved
BackupSettled ==
    /\ pendingBackups > 0
    /\ pendingBackups' = pendingBackups - 1
    /\ \E config \in Configs, resp \in CallResponses :
           LET success == uploadBackup(config, resp).value = "true"
           IN  /\ backupStatus' = IF success THEN "success" ELSE "error"
               /\ last' = Plain(IF success THEN "backupDone" ELSE "backupFailed")
    /\ UNCHANGED <<links, categories, localCache, authToken, savedToken, isAuthOpen,
                   isBackupModalOpen, editingLink, syncStatus, idleTimers, requests,
                   initFetch, pendingImports, pendingRestores, clock, ops, rejected,
                   expVars, davVars, typesVars, lockVars, callVars, storeVars,
                   editingId, editName, editPassword, isCatManagerOpen>>

\* BackupModal lines 120-126 and App.tsx lines 615-618: handleSaveConfig.  The
\* form's config is the object of webDavConfig until a field is edited
\* (lines 106, 188-221); setWebDavConfig with the same object changes
\* nothing, with another object the effect of lines 104-110 runs again.
HandleSaveConfig ==
    /\ isBackupModalOpen
    /\ \E edited \in BOOLEAN :
           /\ backupStatus' = IF edited THEN "idle" ELSE backupStatus
           /\ last' = Plain("saveConfig")
    /\ UNCHANGED <<links, categories, localCache, authToken, savedToken, isAuthOpen,
                   isBackupModalOpen, editingLink, syncStatus, idleTimers, requests,
                   initFetch, pendingImports, pendingRestores, clock, ops, rejected,
                   expVars, davVars, typesVars, extVars>>

\* what the user can do on the page and in its other dialogs
PageControls ==
    \/ OpenBackupModal
    \/ CloseBackupModal
    \/ StartEditLink
    \/ CloseLinkModal
    \/ HandleAddLink
    \/ HandleEditLink
    \/ HandleDeleteLink
    \/ TogglePin
    \/ OpenCatManager
    \/ CloseCatManager
    \/ CatHandleMove
    \/ CatStartEdit
    \/ CatEditName
    \/ CatEditPassword
    \/ CatSaveEdit
    \/ CatHandleAdd
    \/ HandleDeleteCategory
    \/ HandleImport
    \/ HandleRestoreFromCloud
    \/ HandleRestoreDeclined
    \/ HandleBackupToCloud
    \/ HandleSaveConfig
    \/ HandleLogin
    \/ HandleCategoryClick
    \/ SelectAll
    \/ SetSearchQuery
    \/ PromptForSelected

\* the steps that are no answer of /api/storage
LocalNext ==
    \/ PageControls
    \/ CatAuthType
    \/ CatAuthSubmit
    \/ CatAuthClose
    \/ HandleImportParsed
    \/ HandleImportFailed
    \/ RestoreSettled
    \/ BackupSettled
    \/ IdleTimerFired

\* the steps of the application once its load has settled with a credential
\* in place (a control pressed without one then meets the open prompt)
LoadedNext ==
    \/ LocalNext
    \/ LoginSettled
    \/ SyncSettled

Next ==
    \/ InitDataSettled
    \/ RequireAuth
    \/ LoadedNext

Spec == Init /\ [][Next]_vars

SpecLock == LockInit /\ [][LoadedNext]_vars

(***************************************************************************)
(* Specification SpecLoad: the application from its mount, over what the   *)
(* local cache may hold and what GET /api/storage may come to, with the    *)
(* steps of the page running before and after the load has settled.  The   *)
(* module types.ts was evaluated within one tick of the clock.             *)
(***************************************************************************)
\* the item under LOCAL_STORAGE_KEY: none, a text that does not parse, `null`,
\* `{}`, a document lacking one list, a document, a document with no links
LoadCaches ==
    {<< >>, <<Unparsable>>, <<JsonNull>>, <<[theme |-> "dark"]>>,
     <<[links |-> <<LinkOne>>]>>, <<[categories |-> <<CatWork>>]>>,
     <<Doc(<<LinkOne, LinkTwo>>, <<CatCommon, CatWork>>)>>, <<Doc(<< >>, <<CatWork>>)>>}
\* the GET: rejected, answered 500, answered with a text that does not
\* parse, with `null`, `{}`, a document lacking one list, no links, a document
LoadResponses ==
    {LoadResponse(TRUE, FALSE, JsonNull),
     LoadResponse(FALSE, FALSE, Doc(<<LinkTwo>>, <<CatCommon>>)),
     LoadResponse(FALSE, TRUE, Unparsable),
     LoadResponse(FALSE, TRUE, JsonNull),
     LoadResponse(FALSE, TRUE, [theme |-> "dark"]),
     LoadResponse(FALSE, TRUE, [categories |-> <<CatCommon>>]),
     LoadResponse(FALSE, TRUE, [links |-> <<LinkTwo>>]),
     LoadResponse(FALSE, TRUE, Doc(<< >>, <<CatCommon>>)),
     LoadResponse(FALSE, TRUE, Doc(<<LinkTwo>>, <<CatCommon>>))}

LoadInit ==
    /\ eLinks = << >>
    /\ eCats = << >>
    /\ html = NoHtml
    /\ eNow = 0
    /\ draft = << >>
    /\ davResp = << >>
    /\ davResult = << >>
    /\ links = << >>
    /\ categories = << >>
    /\ localCache \in LoadCaches
    /\ savedToken \in {"", "pw1"}
    /\ authToken = savedToken
    /\ isAuthOpen = FALSE
    /\ isBackupModalOpen = FALSE
    /\ editingLink = << >>
    /\ syncStatus = "idle"
    /\ idleTimers = 0
    /\ requests = << >>
    /\ initFetch = "pending"
    /\ pendingImports = << >>
    /\ pendingRestores = << >>
    /\ backupStatus = "idle"
    /\ initialCreatedAt = SameTick                           \* types.ts lines 42-46
    /\ clock = 0
    /\ ops = 0
    /\ rejected = {}
    /\ last = NoStep
    /\ selectedCategory = "all"
    /\ unlockedCategoryIds = {}
    /\ searchQuery = << >>
    /\ catAuthModalData = << >>
    /\ catAuthPassword = << >>
    /\ catAuthError = << >>
    /\ callOp = ""
    /\ callConfig = << >>
    /\ callResp = << >>
    /\ callResult = << >>
    /\ cloudDoc = NoDoc
    /\ handledLog = << >>
    /\ settledLog = << >>
    /\ editingId = ""                                        \* CategoryManagerModal line 20
    /\ editName = << >>                                      \* line 21
    /\ editPassword = << >>                                  \* line 22
    /\ pendingBackups = 0
    /\ isCatManagerOpen = FALSE                             \* line 352

\* lines 452-468, keeping what the GET came to and the cache it found
LoadSettled ==
    \E resp \in LoadResponses :
        /\ InitDataResponse(resp)
        /\ last' = Step("initData", localCache, authToken, "", "", resp, << >>, FALSE)

LoadNext ==
    \/ LoadSettled
    \/ RequireAuth
    \/ LoadedNext

SpecLoad == LoadInit /\ [][LoadNext]_vars

(***************************************************************************)
(* Specification SpecGuard: the application after load with a credential,  *)
(* at the moment one added link is being synced (updateData has run, its   *)
(* POST is in flight).                                                     *)
(***************************************************************************)
GuardLink == LinkItem("0", <<"a">>, <<"u">>, NoText, NoText, "common", 0, FALSE)

GuardInit ==
    /\ eLinks = << >>
    /\ eCats = << >>
    /\ html = NoHtml
    /\ eNow = 0
    /\ draft = << >>
    /\ davResp = << >>
    /\ davResult = << >>
    /\ \E cached \in CachedDocs :
           LET newLinks == <<GuardLink>> \o cached.links
           IN  /\ links = newLinks
               /\ categories = cached.categories
               /\ localCache = StoredDoc(newLinks, cached.categories)
               /\ requests = SyncRequests(newLinks, cached.categories, "pw1")
    /\ savedToken = "pw1"
    /\ authToken = "pw1"
    /\ isAuthOpen = FALSE
    /\ isBackupModalOpen = FALSE
    /\ editingLink = << >>
    /\ syncStatus = "saving"
    /\ idleTimers = 0
    /\ initFetch = "done"
    /\ pendingImports = << >>
    /\ pendingRestores = << >>
    /\ backupStatus = "idle"
    /\ clock = 0
    /\ ops = 0
    /\ rejected = {}
    /\ last = NoStep
    /\ selectedCategory = "all"
    /\ unlockedCategoryIds = {}
    /\ searchQuery = << >>
    /\ catAuthModalData = << >>
    /\ catAuthPassword = << >>
    /\ catAuthError = << >>
    /\ callOp = ""
    /\ callConfig = << >>
    /\ callResp = << >>
    /\ callResult = << >>
    /\ cloudDoc = NoDoc
    /\ handledLog = << >>
    /\ settledLog = << >>
    /\ editingId = ""                                        \* CategoryManagerModal line 20
    /\ editName = << >>                                      \* line 21
    /\ editPassword = << >>                                  \* line 22
    /\ pendingBackups = 0
    /\ isCatManagerOpen = FALSE                             \* line 352
    /\ initialCreatedAt = SameTick

SpecGuard == GuardInit /\ [][LoadedNext]_vars

(***************************************************************************)
(* Specification SpecStore: the application after load, together with the  *)
(* generic store behind /api/storage.  The store is not part of the        *)
(* sources; as the specification describes it, it holds one document,      *)
(* answers 401 to a POST whose credential is not its own, and replaces its *)
(* document by the body of a POST it accepts.  POSTs in flight reach it in *)
(* any order, and an answer may be lost on the way back.                   *)
(***************************************************************************)
StorePassword == "pw1"
Answer(stored, outcome) == [stored |-> stored, outcome |-> outcome]
\* what the store may do with a request, and what the client sees of it
StoreAnswers(r) ==
    IF r.token = StorePassword
    THEN {Answer(TRUE, 200), Answer(TRUE, 0), Answer(FALSE, 500)}
    ELSE {Answer(FALSE, 401)}
\* the document of the store after it took the body of a POST
Stored(doc, body) == body

\* what is kept of request number k of those in flight
LogEntry(k, answer) ==
    [kind |-> requests[k].kind, k |-> k, inflight |-> Len(requests),
     syncs |-> Cardinality({j \in DOMAIN requests : requests[j].kind = "sync"}),
     stored |-> answer.stored, outcome |-> answer.outcome, body |-> requests[k].body]

StoreInit ==
    /\ eLinks = << >>
    /\ eCats = << >>
    /\ html = NoHtml
    /\ eNow = 0
    /\ draft = << >>
    /\ davResp = << >>
    /\ davResult = << >>
    /\ cloudDoc \in RemoteDocs
    /\ \E cached \in CachedDocs :                            \* lines 452-468
           LET loaded == IF Len(cloudDoc.links) > 0 THEN cloudDoc ELSE cached
           IN  /\ links = loaded.links
               /\ categories = loaded.categories
               /\ localCache = <<loaded>>
    /\ savedToken \in {"", "pw1"}
    /\ authToken = savedToken
    /\ isAuthOpen = FALSE
    /\ isBackupModalOpen = FALSE
    /\ editingLink = << >>
    /\ syncStatus = "idle"
    /\ idleTimers = 0
    /\ requests = << >>
    /\ initFetch = "done"
    /\ pendingImports = << >>
    /\ pendingRestores = << >>
    /\ backupStatus = "idle"
    /\ clock = 0
    /\ ops = 0
    /\ rejected = {}
    /\ last = NoStep
    /\ selectedCategory = "all"
    /\ unlockedCategoryIds = {}
    /\ searchQuery = << >>
    /\ catAuthModalData = << >>
    /\ catAuthPassword = << >>
    /\ catAuthError = << >>
    /\ callOp = ""
    /\ callConfig = << >>
    /\ callResp = << >>
    /\ callResult = << >>
    /\ handledLog = << >>
    /\ settledLog = << >>
    /\ editingId = ""                                        \* CategoryManagerModal line 20
    /\ editName = << >>                                      \* line 21
    /\ editPassword = << >>                                  \* line 22
    /\ pendingBackups = 0
    /\ isCatManagerOpen = FALSE                             \* line 352
    /\ initialCreatedAt = SameTick

\* the store handles one of the POSTs in flight that it has not handled yet,
\* whichever was issued first, and its answer sets out
StoreHandles ==
    /\ \E k \in DOMAIN requests :
           \E answer \in StoreAnswers(requests[k]) :
               /\ requests[k].answer = << >>
               /\ requests' = [requests EXCEPT ![k].answer = <<answer>>]
               /\ cloudDoc' = IF answer.stored THEN Stored(cloudDoc, requests[k].body)
                              ELSE cloudDoc
               /\ handledLog' = Append(handledLog, LogEntry(k, answer))
    /\ last' = Plain("storeHandles")
    /\ UNCHANGED <<links, categories, localCache, authToken, savedToken, isAuthOpen,
                   isBackupModalOpen, editingLink, syncStatus, idleTimers, initFetch,
                   pendingImports, pendingRestores, backupStatus, clock, ops, rejected,
                   settledLog, expVars, davVars, typesVars, lockVars, callVars, modalVars>>

\* App.tsx lines 396-413: the answer to one of the POSTs of syncToCloud
\* reaches the page, whichever answer set out first
StoreAnswersSync ==
    /\ \E k \in DOMAIN requests :
           /\ requests[k].answer # << >>
           /\ SyncResponse(k, requests[k].answer[1].outcome)
           /\ settledLog' = Append(settledLog, LogEntry(k, requests[k].answer[1]))
    /\ UNCHANGED <<cloudDoc, handledLog, callVars>>

\* App.tsx lines 498-508: the answer to the POST of handleLogin reaches the
\* page
StoreAnswersLogin ==
    /\ \E k \in DOMAIN requests :
           /\ requests[k].answer # << >>
           /\ LoginResponse(k, requests[k].answer[1].outcome)
           /\ settledLog' = Append(settledLog, LogEntry(k, requests[k].answer[1]))
    /\ UNCHANGED <<cloudDoc, handledLog>>

StoreNext ==
    \/ LocalNext
    \/ RequireAuth
    \/ StoreHandles
    \/ StoreAnswersSync
    \/ StoreAnswersLogin

SpecStore == StoreInit /\ [][StoreNext]_vars

(***************************************************************************)
(* Specification SpecCall: one call of one transport operation, made by    *)
(* the application after its load.                                         *)
(***************************************************************************)
CallFrame == UNCHANGED <<expVars, davVars, typesVars, appVars, lockVars, storeVars, modalVars>>

CallCheck ==
    /\ callOp = ""
    /\ \E config \in Configs, resp \in CallResponses :
           /\ callOp' = "check"
           /\ callConfig' = <<config>>
           /\ callResp' = <<resp>>
           /\ callResult' = <<checkWebDavConnection(config, resp)>>
    /\ CallFrame

CallUpload ==
    /\ callOp = ""
    /\ \E config \in Configs, resp \in CallResponses :
           /\ callOp' = "upload"
           /\ callConfig' = <<config>>
           /\ callResp' = <<resp>>
           /\ callResult' = <<uploadBackup(config, resp)>>
    /\ CallFrame

CallDownload ==
    /\ callOp = ""
    /\ \E config \in Configs, resp \in CallResponses :
           /\ callOp' = "download"
           /\ callConfig' = <<config>>
           /\ callResp' = <<resp>>
           /\ callResult' = <<downloadBackupCall(config, resp)>>
    /\ CallFrame

\* what the POST of syncToCloud came to, as SyncResponse reads it: 0 for a
\* fetch that rejected, the status otherwise
OutcomeOf(resp) == IF resp.threw THEN 0 ELSE resp.status

\* App.tsx lines 384-394, called by updateData (line 426) with the lists and
\* the credential of the render: the status is set and the POST issued
CallSyncStart ==
    /\ callOp = ""
    /\ authToken # ""                                        \* line 425
    /\ callOp' = "sync"
    /\ callConfig' = <<WebDavConfig(TRUE, TRUE)>>
    /\ syncStatus' = "saving"                                \* line 385
    /\ requests' = requests \o SyncRequests(links, categories, authToken)
    /\ last' = Step("syncToCloud", Doc(links, categories), authToken, authToken, "", NoDoc,
                    SyncRequests(links, categories, authToken), FALSE)
    /\ UNCHANGED <<links, categories, localCache, authToken, savedToken, isAuthOpen,
                   isBackupModalOpen, editingLink, idleTimers, initFetch, pendingImports,
                   pendingRestores, backupStatus, clock, ops, rejected, callResp, callResult,
                   expVars, davVars, typesVars, lockVars, storeVars, modalVars>>

\* App.tsx lines 396-413: the await of line 387 ends, the call sets the
\* status (and on 401 clears the credential and opens the login prompt) and
\* returns
CallSyncSettled ==
    /\ callOp = "sync"
    /\ callResult = << >>
    /\ \E resp \in CallResponses :
           /\ callResp' = <<resp>>
           /\ callResult' = <<syncToCloud(resp)>>
           /\ SyncResponse(1, OutcomeOf(resp))
    /\ UNCHANGED <<callOp, callConfig, storeVars>>

CallNext ==
    \/ CallCheck
    \/ CallUpload
    \/ CallDownload
    \/ CallSyncStart
    \/ CallSyncSettled
    \/ IdleTimerFired

SpecCall == StoreInit /\ [][CallNext]_vars

(***************************************************************************)
(* Reading a generated document back: its folders, in order, each with     *)
(* its heading and the anchors listed under it.                            *)
(***************************************************************************)
RECURSIVE LeadingAnchors(_)
LeadingAnchors(lines) ==
    IF lines = << >> \/ Head(lines).kind # "A" THEN << >>
    ELSE <<Head(lines)>> \o LeadingAnchors(Tail(lines))

RECURSIVE Folders(_)
Folders(lines) ==
    IF lines = << >> THEN << >>
    ELSE IF Head(lines).kind = "H3"
         THEN <<[heading |-> Head(lines), anchors |-> LeadingAnchors(Drop(lines, 2))]>>
              \o Folders(Tail(lines))
         ELSE Folders(Tail(lines))

AllAnchors(lines) == SelectSeq(lines, LAMBDA ln : ln.kind = "A")
Dangling(ls, cats) == SelectSeq(ls, LAMBDA l : l.categoryId \notin CatIdsOf(cats))
InCategory(ls, id) == SelectSeq(ls, LAMBDA l : l.categoryId = id)
\* the anchor shows the link: its URL as written and its title once decoded
Shows(anchor, link) == anchor.href = link.url /\ DecodeEntities(anchor.text) = link.title
ShowsAll(anchors, ls) ==
    /\ Len(anchors) = Len(ls)
    /\ \A j \in DOMAIN anchors : Shows(anchors[j], ls[j])
Generated == html # NoHtml

(***************************************************************************)
(* Claims about the application (specification Spec).                      *)
(***************************************************************************)

\* C1: handleDeleteCategory with a credential present removes no link: the
\* link list keeps its length, its ids and their order; every link that was in
\* the deleted category now has categoryId 'common', and every other link is
\* unchanged.
C1_DeleteCategoryKeepsLinks ==
    (last.op = "deleteCategory" /\ last.updated) =>
        /\ Len(links) = Len(last.pre.links)
        /\ \A i \in DOMAIN links :
               /\ links[i].id = last.pre.links[i].id
               /\ IF last.pre.links[i].categoryId = last.catId
                  THEN links[i] = [last.pre.links[i] EXCEPT !.categoryId = "common"]
                  ELSE links[i] = last.pre.links[i]

\* a category other than 'common' was deleted while it held a link and another
\* category held one too
C1_Witness ==
    /\ last.op = "deleteCategory"
    /\ last.updated
    /\ last.catId # "common"
    /\ \E i \in DOMAIN last.pre.links : last.pre.links[i].categoryId = last.catId
    /\ \E i \in DOMAIN last.pre.links : last.pre.links[i].categoryId # last.catId

\* C2: a sync answered 401 clears the credential in memory and in local
\* storage, opens the authentication prompt and reports failure; and from then
\* on no POST to the generic store carries the rejected credential until a
\* credential is submitted through login again.
C2_NoPostWithRejectedCredential ==
    /\ last.op = "sync401" =>
           /\ authToken = ""
           /\ savedToken = ""
           /\ isAuthOpen
           /\ syncStatus = "error"
    /\ \A i \in DOMAIN last.posted :
           last.posted[i].kind = "sync" => last.posted[i].token \notin rejected

(***************************************************************************)
(* C3: downloadBackup returns the decoded document exactly when the        *)
(* response is ok and both links and categories of the decoded value are   *)
(* lists; for a thrown error, a non-ok status, an unparsable body or a     *)
(* body with either field not a list it returns null.                      *)
(***************************************************************************)
C3_DownloadValidates ==
    davResp # << >> =>
        LET resp == davResp[1]
            accepted == /\ ~resp.threw
                        /\ resp.status \in 200..299
                        /\ resp.body.t = "object"
                        /\ resp.body.links.t = "array"
                        /\ resp.body.categories.t = "array"
        IN  /\ accepted => davResult = <<resp.body>>
            /\ ~accepted => davResult = << >>

\* the payload {"links": {}, "categories": []} of an ok response is rejected
C3_Witness ==
    /\ davResp # << >>
    /\ ~davResp[1].threw
    /\ davResp[1].status = 200
    /\ davResp[1].body = Body("object", Field("object", << >>), Field("array", << >>))
    /\ davResult = << >>

(***************************************************************************)
(* C4: every link whose categoryId equals no category id is emitted as     *)
(* exactly one anchor, inside the trailing uncategorized folder, and as no *)
(* anchor inside a category folder: the last folder is the uncategorized   *)
(* one and lists exactly the dangling links, and the folder of a category  *)
(* lists as many anchors as there are links of that category, each         *)
(* showing one of them.                                                    *)
(***************************************************************************)
C4_DanglingOnlyUncategorized ==
    (Generated /\ Dangling(eLinks, eCats) # << >>) =>
        LET fs == Folders(html)
            tail == fs[Len(fs)]
        IN  /\ Len(fs) = Len(eCats) + 1
            /\ tail.heading.text = UncategorizedName
            /\ ShowsAll(tail.anchors, Dangling(eLinks, eCats))
            /\ \A k \in DOMAIN eCats :
                   /\ Len(fs[k].anchors) = Len(InCategory(eLinks, eCats[k].id))
                   /\ \A j \in DOMAIN fs[k].anchors :
                          \E i \in DOMAIN eLinks :
                              /\ eLinks[i].categoryId = eCats[k].id
                              /\ Shows(fs[k].anchors[j], eLinks[i])

C4_Witness ==
    /\ Generated
    /\ Len(eCats) = 2
    /\ Len(Dangling(eLinks, eCats)) = 1
    /\ Len(eLinks) = 2

(***************************************************************************)
(* C5: exporting and then parsing the exported document recovers, for      *)
(* every link, its title, its URL and the name of the folder it belongs    *)
(* to (the name of its category, or the uncategorized folder).             *)
(***************************************************************************)
C5_RoundTrip ==
    Generated =>
        LET parsed == parseBookmarks(html)
        IN  \A i \in DOMAIN eLinks :
                \E j \in DOMAIN parsed :
                    /\ parsed[j].title = eLinks[i].title
                    /\ parsed[j].url = eLinks[i].url
                    /\ \/ \E k \in DOMAIN eCats :
                              /\ eCats[k].id = eLinks[i].categoryId
                              /\ parsed[j].folder = eCats[k].name
                       \/ /\ eLinks[i].categoryId \notin CatIdsOf(eCats)
                          /\ parsed[j].folder = UncategorizedName

(***************************************************************************)
(* C6: the text embedded for a title or a category name holds none of      *)
(* & < > " ' raw except an & that starts one of the five entities, and     *)
(* decoding the entities gives back the original text.                     *)
(***************************************************************************)
Entities == {EntAmp, EntLt, EntGt, EntQuot, EntApos}
Clean(text) ==
    \A i \in DOMAIN text :
        /\ text[i] \notin {"<", ">", "\"", "'"}
        /\ text[i] = "&" => \E e \in Entities : StartsWith(Drop(text, i - 1), e)

C6_EscapeRoundTrip ==
    Generated =>
        LET fs == Folders(html)
            as == AllAnchors(html)
        IN  /\ \A k \in DOMAIN eCats :
                   /\ Clean(fs[k].heading.text)
                   /\ DecodeEntities(fs[k].heading.text) = eCats[k].name
            /\ \A j \in DOMAIN as :
                   /\ Clean(as[j].text)
                   /\ \E i \in DOMAIN eLinks : DecodeEntities(as[j].text) = eLinks[i].title
            /\ Len(as) = Len(eLinks)

\* a text that already looks like an entity, next to a raw quote
C6_Witness ==
    /\ Generated
    /\ Len(draft) = MaxStrLen
    /\ StartsWith(draft, <<"&", "l", "t">>)
    /\ \E i \in DOMAIN draft : draft[i] \in {"<", ">", "\"", "'"}
    /\ Len(AllAnchors(html)) = 1

(***************************************************************************)
(* C7: one folder per category, in the order given, an empty one for a     *)
(* category without links; each lists exactly the links of its category    *)
(* in their order in the link list; the uncategorized folder exists if     *)
(* and only if some link is dangling, and it comes last.                   *)
(***************************************************************************)
C7_FolderPerCategory ==
    Generated =>
        LET fs == Folders(html)
            dangling == Dangling(eLinks, eCats)
        IN  /\ Len(fs) = Len(eCats) + (IF dangling # << >> THEN 1 ELSE 0)
            /\ \A k \in DOMAIN eCats :
                   /\ DecodeEntities(fs[k].heading.text) = eCats[k].name
                   /\ ShowsAll(fs[k].anchors, InCategory(eLinks, eCats[k].id))
            /\ dangling # << >> =>
                   /\ fs[Len(fs)].heading.text = UncategorizedName
                   /\ ShowsAll(fs[Len(fs)].anchors, dangling)

\* two categories, the first of them empty, two links in the second
C7_Witness ==
    /\ Generated
    /\ Len(eCats) = 2
    /\ eCats[1].id # eCats[2].id
    /\ InCategory(eLinks, eCats[1].id) = << >>
    /\ Len(InCategory(eLinks, eCats[2].id)) = 2
    /\ eLinks[1] # eLinks[2]

(***************************************************************************)
(* C8: every anchor, in a category folder or in the uncategorized folder,  *)
(* carries ADD_DATE = floor(createdAt / 1000) of its link and an ICON      *)
(* attribute exactly when its link has an icon.                            *)
(***************************************************************************)
CarriesDateAndIcon(anchors, ls) ==
    \A j \in DOMAIN anchors :
        /\ anchors[j].addDate * 1000 <= ls[j].createdAt
        /\ ls[j].createdAt < (anchors[j].addDate + 1) * 1000
        /\ ls[j].icon # NoText => anchors[j].iconAttr = <<ls[j].icon>>
        /\ ls[j].icon = NoText => anchors[j].iconAttr = << >>

C8_DateAndIcon ==
    Generated =>
        LET fs == Folders(html)
            dangling == Dangling(eLinks, eCats)
        IN  /\ \A k \in DOMAIN eCats :
                   CarriesDateAndIcon(fs[k].anchors, InCategory(eLinks, eCats[k].id))
            /\ dangling # << >> => CarriesDateAndIcon(fs[Len(fs)].anchors, dangling)

\* the parsed categories an import keeps: those whose name is the name of no
\* category held before and of no parsed category before them
KeptOnImport(had, got) ==
    {i \in DOMAIN got :
        /\ \A j \in DOMAIN had : had[j].name # got[i].name
        /\ \A k \in 1..(i - 1) : got[k].name # got[i].name}

\* C9: an import with a credential present leaves the current category list
\* (the one held when the import writes its result) unchanged and in order,
\* followed by each parsed category whose name is (exactly, case-sensitively)
\* the name of no category already in the merged list; the link list is the
\* current link list followed by all parsed links.  handleImport merges into
\* the lists of the render in which the file was chosen (lines 522-523).
C9_ImportMerge ==
    last.op = "importDone" =>
        LET had == last.pre.categories
            got == last.parsed.categories
            kept == KeptOnImport(had, got)
        IN  /\ links = last.pre.links \o last.parsed.links
            /\ Len(categories) = Len(had) + Cardinality(kept)
            /\ SubSeq(categories, 1, Len(had)) = had
            /\ \A i \in kept :
                   categories[Len(had) + Cardinality({k \in kept : k <= i})] = got[i]

\* C10: every mutation made through updateData writes the new snapshot to the
\* local cache in the same step, and posts that snapshot to the generic store
\* if and only if a credential is present at that moment.
C10_CacheAndPost ==
    last.updated =>
        /\ localCache = StoredDoc(links, categories)
        /\ (last.posted # << >>) <=> (last.token # "")
        /\ \A i \in DOMAIN last.posted :
               /\ last.posted[i].kind = "sync"
               /\ last.posted[i].body = Doc(links, categories)

(***************************************************************************)
(* Claims about category locking (specification SpecLock).                 *)
(***************************************************************************)
\* the ids of the categories that have a password and are not unlocked
ProtectedIds ==
    {categories[i].id : i \in {j \in DOMAIN categories : categories[j].password # NoText}}
        \ unlockedCategoryIds
Occurs(l, ls) == \E j \in DOMAIN ls : ls[j] = l

\* C11: in every reachable state, whatever was typed into the search box and
\* whichever category is selected, displayedLinks and pinnedLinks hold no link of a category that
\* exists, has a password and is not unlocked; and a link whose categoryId
\* names no existing category is not hidden by the lock filter.
\* isCategoryLocked looks at the first category with the id (line 629), so a
\* second category added with the same id and a password hides nothing.
C11_LockedLinksHidden ==
        LET shown == displayedLinks(links, categories, unlockedCategoryIds,
                                    selectedCategory, searchQuery)
            everything == displayedLinks(links, categories, unlockedCategoryIds, "all", << >>)
            pins == pinnedLinks(links, categories, unlockedCategoryIds)
        IN  /\ \A i \in DOMAIN shown : shown[i].categoryId \notin ProtectedIds
            /\ \A i \in DOMAIN pins : pins[i].categoryId \notin ProtectedIds
            /\ \A i \in DOMAIN links :
                   links[i].categoryId \notin CatIdsOf(categories) =>
                       /\ Occurs(links[i], everything)
                       /\ links[i].pinned => Occurs(links[i], pins)

\* C16: the unlocked set is empty at load; an id enters it only by a
\* submission of the prompt whose text equals the password stored for that
\* category in the category list; a submission with another text leaves the
\* unlocked set and the selected category unchanged and shows the error; and
\* what is persisted (the cached document) holds links and categories only.
\* The prompt compares with the Category object it was opened with (lines
\* 581, 947 and CategoryAuthModal line 20), which an import or a restore that
\* resolves while the prompt is open leaves behind.
C16_UnlockOnlyByPassword ==
    /\ unlockedCategoryIds = {}
    /\ [][ /\ unlockedCategoryIds' # unlockedCategoryIds =>
                  /\ last'.op = "unlockSubmit"
                  /\ catAuthModalData # << >>
                  /\ \E i \in DOMAIN categories :
                         /\ categories[i].id = catAuthModalData[1].id
                         /\ categories[i].password = catAuthPassword
                         /\ unlockedCategoryIds' = unlockedCategoryIds \cup {categories[i].id}
           /\ (/\ last'.op = "unlockSubmit"
               /\ \A i \in DOMAIN categories :
                      categories[i].id = catAuthModalData[1].id =>
                          categories[i].password # catAuthPassword) =>
                  /\ unlockedCategoryIds' = unlockedCategoryIds
                  /\ selectedCategory' = selectedCategory
                  /\ catAuthError' = WrongPassword
           /\ localCache' # << >> => DOMAIN localCache'[1] = {"links", "categories"}
         ]_vars

(***************************************************************************)
(* Claims about the transport operations (specification SpecCall).         *)
(***************************************************************************)
\* the call met a failure: its credentials could not be encoded, fetch
\* rejected, the status was not a success, or (for a download) the payload
\* was not a document
CallFailed ==
    \/ (callOp # "sync" /\ ~callConfig[1].latin1)
    \/ callResp[1].threw
    \/ callResp[1].status < 200
    \/ callResp[1].status > 299
    \/ /\ callOp = "download"
       /\ \/ callResp[1].body.t # "object"
          \/ callResp[1].body.links.t # "array"
          \/ callResp[1].body.categories.t # "array"

\* C12: no transport operation raises to its caller; on every failure
\* checkWebDavConnection, uploadBackup and syncToCloud return false and
\* downloadBackup returns null, whatever the kind of the failure, and a
\* failed syncToCloud leaves the status 'error'; only the 401 of syncToCloud
\* is treated apart: it alone clears the credential and opens the login
\* prompt; and no operation calls fetch twice or leaves a request behind.
C12_TransportNeverRaises ==
    callResult # << >> =>
        /\ ~callResult[1].threw
        /\ callResult[1].fetches <= 1
        /\ requests = << >>
        /\ CallFailed =>
               callResult[1].value = (IF callOp = "download" THEN "null" ELSE "false")
        /\ (callOp = "sync" /\ CallFailed) => syncStatus = "error"
        /\ callOp # "sync" => ~isAuthOpen
        /\ callOp = "sync" =>
               IF ~callResp[1].threw /\ callResp[1].status = 401
               THEN authToken = "" /\ savedToken = "" /\ isAuthOpen
               ELSE authToken # "" /\ savedToken # "" /\ ~isAuthOpen

\* a sync answered 401 came back as false, with the credential cleared and
\* the login prompt open
C12_Witness ==
    /\ callOp = "sync"
    /\ callResult # << >>
    /\ ~callResp[1].threw
    /\ callResp[1].status = 401
    /\ callResult[1].value = "false"
    /\ authToken = ""
    /\ savedToken = ""
    /\ isAuthOpen
    /\ syncStatus = "error"

\* C13: uploadBackup returns true exactly when the PUT was answered with an
\* ok status (200-299), 201 or 204, and false for every other status and for
\* every thrown error.
C13_UploadSuccess ==
    (callOp = "upload" /\ callResult # << >>) =>
        LET st == callResp[1].status
            answered == callConfig[1].latin1 /\ ~callResp[1].threw
        IN  /\ callResult[1].value \in {"true", "false"}
            /\ callResult[1].value = "true" <=>
                   (answered /\ ((st >= 200 /\ st <= 299) \/ st = 201 \/ st = 204))

\* an upload answered 299 came back as true
C13_Witness ==
    /\ callOp = "upload"
    /\ callResult # << >>
    /\ ~callResp[1].threw
    /\ callResp[1].status = 299
    /\ callResult[1].value = "true"

(***************************************************************************)
(* Claims about the generic store (specification SpecStore).               *)
(***************************************************************************)
\* the POSTs the store accepted, in the order it accepted them
Accepted == SelectSeq(handledLog, LAMBDA e : e.stored)

C18_LastResponseWins ==
    (/\ Len(settledLog) >= 2
     /\ settledLog[Len(settledLog)].kind = "sync"
     /\ settledLog[Len(settledLog) - 1].kind = "sync"
     /\ settledLog[Len(settledLog) - 1].syncs >= 2
     /\ \A k \in DOMAIN requests : requests[k].kind # "sync") =>
        LET e == settledLog[Len(settledLog)]
        IN  syncStatus \in (IF e.outcome >= 200 /\ e.outcome <= 299
                            THEN {"saved", "idle"} ELSE {"error"})

(***************************************************************************)
(* Claims about identifiers and about deleting a category (specification   *)
(* Spec).                                                                  *)
(***************************************************************************)
DistinctIds(seq) == \A i, j \in DOMAIN seq : seq[i].id = seq[j].id => i = j
EditingOps == {"addLink", "editLink", "deleteLink", "togglePin",
               "addCategory", "saveCategory", "moveCategory", "deleteCategory"}

\* C15: adding, editing, pinning, moving and deleting keep the identifiers
\* apart: when the link ids and the category ids were pairwise distinct
\* before such an operation, they are pairwise distinct after it.
C15_IdsPairwiseDistinct ==
    (/\ last.op \in EditingOps
     /\ last.updated
     /\ DistinctIds(last.pre.links)
     /\ DistinctIds(last.pre.categories)) =>
        /\ DistinctIds(links)
        /\ DistinctIds(categories)

\* C17: after a category was deleted, every link that belonged to it
\* references a category of the resulting category list.
C17_DeletedCategoryLinksHaveCategory ==
    (last.op = "deleteCategory" /\ last.updated) =>
        \A i \in DOMAIN last.pre.links :
            last.pre.links[i].categoryId = last.catId =>
                links[i].categoryId \in CatIdsOf(categories)

\* C20: after handleDeleteCategory the category list is never empty: it is
\* the previous list without the categories carrying the deleted id, in the
\* same order, or, when none is left, exactly the built-in default category
\* 'common'.
C20_CategoriesNeverEmpty ==
    (last.op = "deleteCategory" /\ last.updated) =>
        LET before == last.pre.categories
            kept == {i \in DOMAIN before : before[i].id # last.catId}
        IN  /\ categories # << >>
            /\ IF kept = {}
               THEN /\ Len(categories) = 1
                    /\ categories[1] = DEFAULT_CATEGORIES[1]
                    /\ categories[1].id = "common"
               ELSE /\ Len(categories) = Cardinality(kept)
                    /\ \A j \in DOMAIN categories :
                           \E i \in kept :
                               /\ categories[j] = before[i]
                               /\ Cardinality({h \in kept : h < i}) = j - 1

\* the only category, which is not 'common', was deleted and the default took
\* its place
C20_Witness ==
    /\ last.op = "deleteCategory"
    /\ last.updated
    /\ Len(last.pre.categories) = 1
    /\ last.pre.categories[1].id = last.catId
    /\ last.catId # "common"
    /\ categories = <<DEFAULT_CATEGORIES[1]>>

(***************************************************************************)
(* Claims about restoring from the WebDAV backup (specification Spec).     *)
(***************************************************************************)
\* C19: a restore whose download returned a document replaces the record
\* set and the local cache by exactly the downloaded links and categories
\* and shows 'success'; a restore whose download returned null leaves the
\* record set and the cache as they were and shows 'error'; a declined
\* confirmation leaves them and the status as they were.
C19_RestoreReplacesWholesale ==
    [][/\ last'.op = "restoreDone" =>
              /\ links' = last'.parsed.links
              /\ categories' = last'.parsed.categories
              /\ localCache' = StoredDoc(last'.parsed.links, last'.parsed.categories)
              /\ backupStatus' = "success"
       /\ last'.op = "restoreFailed" =>
              /\ UNCHANGED <<links, categories, localCache>>
              /\ backupStatus' = "error"
       /\ last'.op = "restoreDeclined" =>
              UNCHANGED <<links, categories, localCache, backupStatus>>]_vars

\* a restore replaced a record set holding a link and a category that the
\* downloaded document does not have
C19_Witness ==
    /\ last.op = "restoreDone"
    /\ backupStatus = "success"
    /\ links = last.parsed.links
    /\ \E i \in DOMAIN last.pre.links :
           \A j \in DOMAIN links : links[j].id # last.pre.links[i].id
    /\ \E i \in DOMAIN last.pre.categories :
           \A j \in DOMAIN categories : categories[j].id # last.pre.categories[i].id

(***************************************************************************)
(* Claims about the credential (specification Spec).                       *)
(***************************************************************************)
\* C23: the credential in memory and the one kept under AUTH_KEY agree in
\* every reachable state; a login whose POST was answered ok puts the
\* submitted password into both, a login answered otherwise changes neither,
\* and a sync answered 401 clears both.
C23_CredentialsAgree ==
    /\ authToken = savedToken
    /\ [][/\ authToken' = savedToken'
          /\ last'.op = "loginOk" =>
                 /\ authToken' = last'.closure
                 /\ savedToken' = last'.closure
          /\ last'.op = "loginFailed" => UNCHANGED <<authToken, savedToken>>
          /\ last'.op = "sync401" =>
                 /\ authToken' = ""
                 /\ savedToken' = ""]_vars

\* a login was accepted where no credential was held before
C23_Witness ==
    /\ last.op = "loginOk"
    /\ last.token = ""
    /\ authToken = last.closure
    /\ authToken # ""
    /\ savedToken = authToken

(***************************************************************************)
(* Claims about handlers that overlap (specification Spec).                *)
(***************************************************************************)
\* C25: an import loses no change made while it was parsing: every link and
\* every category of the record set immediately before the import writes its
\* result is in the record set after it.
C25_ImportKeepsConcurrentChanges ==
    [][last'.op = "importDone" =>
           /\ \A i \in DOMAIN links : \E j \in DOMAIN links' : links'[j] = links[i]
           /\ \A i \in DOMAIN categories :
                  \E j \in DOMAIN categories' : categories'[j] = categories[i]
           /\ \A i \in DOMAIN last'.parsed.links :
                  \E j \in DOMAIN links' : links'[j] = last'.parsed.links[i]]_vars

\* C27: while a POST of syncToCloud is in flight the sync status is 'saving'.
C27_SavingWhileSyncInFlight ==
    (\E k \in DOMAIN requests : requests[k].kind = "sync") => syncStatus = "saving"

(***************************************************************************)
(* Convergence of the generic store (specification SpecStore).             *)
(***************************************************************************)
\* C26: when every POST so far was accepted and answered with success and
\* none is in flight, the document of the store is the record set in memory.
C26_StoreEqualsMemoryWhenQuiet ==
    (/\ settledLog # << >>
     /\ \A i \in DOMAIN settledLog :
            settledLog[i].stored /\ settledLog[i].outcome = 200
     /\ authToken = StorePassword
     /\ requests = << >>) =>
        cloudDoc = Doc(links, categories)

(***************************************************************************)
(* Selecting a protected category (specification SpecLock).                *)
(***************************************************************************)
\* C28: a step that changes the selected category to a category with a
\* password is taken only with that category in the unlocked set; a step
\* that opens the password prompt leaves the selected category as it was and
\* opens it for a protected category that is not unlocked.
\* handleCategoryClick tests the Category object of the row that was clicked
\* (line 580), which may share its id with a protected category.
C28_SelectOnlyUnlocked ==
    [][/\ (/\ selectedCategory' # selectedCategory
           /\ \E i \in DOMAIN categories' :
                  /\ categories'[i].id = selectedCategory'
                  /\ categories'[i].password # NoText) =>
              selectedCategory' \in unlockedCategoryIds'
       /\ (catAuthModalData = << >> /\ catAuthModalData' # << >>) =>
              /\ UNCHANGED <<selectedCategory, unlockedCategoryIds>>
              /\ catAuthModalData'[1].password # NoText
              /\ catAuthModalData'[1].id \notin unlockedCategoryIds]_vars

(***************************************************************************)
(* Moving a category (specification SpecLock: the arrows of the category   *)
(* manager over the lists the manager is given).                           *)
(***************************************************************************)
\* how often category c stands in the list
Count(seq, c) == Cardinality({i \in DOMAIN seq : seq[i] = c})

\* the categories of a list
Members(seq) == {seq[i] : i \in DOMAIN seq}

\* the list with the categories at positions i and i + 1 exchanged
Exchanged(seq, i) == [seq EXCEPT ![i] = seq[i + 1], ![i + 1] = seq[i]]

\* C29: handleMove at any position of the category list and in either
\* direction swaps the category with its neighbour in that direction and
\* leaves every other position alone; at the first position upwards and at
\* the last downwards it returns the same list; the result holds the same
\* categories as often as before; moving a category up and then down again
\* from where it arrived gives the original list; and a press of an arrow
\* leaves the list of the application with two neighbours exchanged.
C29_MoveIsSwap ==
    /\ \A index \in DOMAIN categories, direction \in {"up", "down"} :
           LET moved == handleMove(categories, index, direction)
               other == IF direction = "up" THEN index - 1 ELSE index + 1
           IN  /\ Len(moved) = Len(categories)
               /\ \A c \in Members(categories) \cup Members(moved) :
                      Count(moved, c) = Count(categories, c)
               /\ IF other \in DOMAIN categories
                  THEN /\ moved[index] = categories[other]
                       /\ moved[other] = categories[index]
                       /\ \A i \in DOMAIN categories \ {index, other} :
                              moved[i] = categories[i]
                  ELSE moved = categories
               /\ (direction = "up" /\ index > 1) =>
                      handleMove(moved, index - 1, "down") = categories
    /\ (last.op = "moveCategory" /\ last.updated) =>
           /\ \E i \in 1..(Len(last.pre.categories) - 1) :
                  categories = Exchanged(last.pre.categories, i)
           /\ \A c \in Members(categories) \cup Members(last.pre.categories) :
                  Count(categories, c) = Count(last.pre.categories, c)

\* the second category was moved down and then up again: both lists were
\* sent, and the list is the one of the start
C29_Witness ==
    /\ last.op = "moveCategory"
    /\ last.updated
    /\ Len(requests) = 2
    /\ requests[1].body.categories = Exchanged(LockCategories, 2)
    /\ requests[2].body.categories = LockCategories
    /\ categories = LockCategories
    /\ Cardinality(Members(categories)) = 4

(***************************************************************************)
(* Writing without a credential (specification SpecGuard).                 *)
(***************************************************************************)
\* C24: an operation of the user that runs while no credential is present
\* leaves the links, the categories and the local cache as they are.
C24_NoWriteWithoutCredential ==
    [][(/\ last'.closure = ""
        /\ last'.op \in EditingOps \cup {"import", "importDone", "restore", "restoreDone"}) =>
           UNCHANGED <<links, categories, localCache>>]_vars

(***************************************************************************)
(* The initial load (specification SpecLoad).                              *)
(***************************************************************************)
\* C21: after the initial load the record set is the remote document, which
\* is then also the local cache, exactly when the GET succeeded with a
\* document whose links list is not empty; otherwise the cache is left as it
\* was and the record set is what the cache holds if there is one and it
\* parses, the built-in links or categories standing in for a list it lacks;
\* otherwise it is the built-in links and categories.  After a GET that
\* was rejected, and with a cache that does not parse, neither list is left
\* empty.
\* loadFromLocal keeps a list the cache holds even when it is empty
\* (`parsed.links || INITIAL_LINKS`, line 372).
C21_LoadPrecedence ==
    last.op = "initData" =>
        LET resp == last.parsed
            stored == last.pre
            adopted == /\ ~resp.rejected
                       /\ resp.ok
                       /\ "unparsable" \notin DOMAIN resp.data
                       /\ "null" \notin DOMAIN resp.data
                       /\ "links" \in DOMAIN resp.data
                       /\ resp.data.links # << >>
            parses == /\ stored # << >>
                      /\ "unparsable" \notin DOMAIN stored[1]
                      /\ "null" \notin DOMAIN stored[1]
        IN  /\ adopted => localCache = <<resp.data>>
            /\ adopted => links = resp.data.links
            /\ (adopted /\ "categories" \in DOMAIN resp.data) =>
                   categories = resp.data.categories
            /\ ~adopted => localCache = stored
            /\ (~adopted /\ parses /\ "links" \in DOMAIN stored[1]) =>
                   links = stored[1].links
            /\ (~adopted /\ parses /\ "categories" \in DOMAIN stored[1]) =>
                   categories = stored[1].categories
            /\ (~adopted /\ ~(parses /\ "links" \in DOMAIN stored[1])) =>
                   links = INITIAL_LINKS
            /\ (~(adopted \/ parses) \/ "categories" \notin
                    DOMAIN (IF adopted THEN resp.data ELSE stored[1])) =>
                   categories = DEFAULT_CATEGORIES
            /\ (resp.rejected \/ (stored # << >> /\ ~parses)) =>
                   links # << >> /\ categories # << >>

\* C22: once the initial load has completed, decoding the local cache as
\* loadFromLocal does gives the links and the categories in memory.
C22_CacheDecodesToMemory ==
    initFetch = "done" => LoadedFromLocal(localCache) = Doc(links, categories)

\* the load adopted a remote document that has no categories: the cache
\* holds that document as it came, memory holds the built-in categories
C22_Witness ==
    /\ initFetch = "done"
    /\ last.op = "initData"
    /\ localCache # << >>
    /\ "links" \in DOMAIN localCache[1]
    /\ "categories" \notin DOMAIN localCache[1]
    /\ links = localCache[1].links
    /\ categories = DEFAULT_CATEGORIES

====
